---------------------------- MODULE Spec2Model ----------------------------
(***************************************************************************)
(* A model of the userspace half of the Atropos scheduler                  *)
(* (tools/sched_ext/scx_atropos/src/main.rs): the topology builder and the *)
(* load balancer.                                                          *)
(*                                                                         *)
(* Strings are sequences of one-character strings.  Option<usize> is the   *)
(* value NoDom (None) or a domain id (Some).  Load values, which the code  *)
(* keeps as f64, are integers in units of 1/LoadScale; the inputs are      *)
(* drawn so that every division the code performs on them is exact.        *)
(***************************************************************************)
EXTENDS Integers, Sequences, FiniteSets, TLC

(***************************************************************************)
(* Bounds of the model.                                                    *)
(***************************************************************************)
\* The host has 1..MaxCpus possible CPUs.
MaxCpus == 4
\* The highest bit index set in an explicit cpumask.
MaxMaskBit == 3

\* atropos_sys::MAX_DOMS: a compile-time constant shared with the kernel
\* component.  The model takes a small value so that both outcomes of each
\* comparison with it are reached.
MAX_DOMS == 3

\* Option<usize>::None
NoDom == 0 - 1

(***************************************************************************)
(* Generic helpers.                                                        *)
(***************************************************************************)
Max(S) == CHOOSE x \in S : \A y \in S : y <= x
Min(S) == CHOOSE x \in S : \A y \in S : x <= y
Abs(x) == IF x < 0 THEN 0 - x ELSE x

RECURSIVE Pow2(_)
Pow2(n) == IF n = 0 THEN 1 ELSE 2 * Pow2(n - 1)

\* The elements of a finite set of integers in ascending order.
RECURSIVE SortAsc(_)
SortAsc(S) == IF S = {} THEN << >> ELSE <<Min(S)>> \o SortAsc(S \ {Min(S)})

Reverse(s) == [i \in 1..Len(s) |-> s[Len(s) + 1 - i]]

RECURSIVE SeqSum(_)
SeqSum(s) == IF s = << >> THEN 0 ELSE Head(s) + SeqSum(Tail(s))

(***************************************************************************)
(* Topology::from_cpumasks                                                 *)
(***************************************************************************)
HexChars == {"0", "1", "2", "3", "4", "5", "6", "7", "8", "9",
             "a", "b", "c", "d", "e", "f", "A", "B", "C", "D", "E", "F"}

\* The value of one hex digit, as hex::decode reads it (either case).
hex_val(c) ==
    CASE c = "0" -> 0 [] c = "1" -> 1 [] c = "2" -> 2 [] c = "3" -> 3
      [] c = "4" -> 4 [] c = "5" -> 5 [] c = "6" -> 6 [] c = "7" -> 7
      [] c = "8" -> 8 [] c = "9" -> 9
      [] c \in {"a", "A"} -> 10 [] c \in {"b", "B"} -> 11
      [] c \in {"c", "C"} -> 12 [] c \in {"d", "D"} -> 13
      [] c \in {"e", "E"} -> 14 [] c \in {"f", "F"} -> 15

\* cpumask.strip_prefix("0x").unwrap_or(cpumask)
strip_prefix_0x(s) ==
    IF Len(s) >= 2 /\ s[1] = "0" /\ s[2] = "x"
    THEN SubSeq(s, 3, Len(s))
    ELSE s

\* .replace('_', "")
remove_underscores(s) == SelectSeq(s, LAMBDA c : c # "_")

\* The hex_str block: prefix stripped, separators removed, odd length padded.
hex_str(cpumask) ==
    LET tmp_str == remove_underscores(strip_prefix_0x(cpumask))
    IN  IF Len(tmp_str) % 2 # 0 THEN <<"0">> \o tmp_str ELSE tmp_str

\* hex::decode: [ok |-> FALSE] on a character that is no hex digit, the
\* bytes (most significant first) otherwise.
hex_decode(s) ==
    IF \E i \in 1..Len(s) : s[i] \notin HexChars
    THEN [ok |-> FALSE, bytes |-> << >>]
    ELSE [ok |-> TRUE,
          bytes |-> [i \in 1..(Len(s) \div 2) |->
                        16 * hex_val(s[2 * i - 1]) + hex_val(s[2 * i])]]

\* v.trailing_zeros() for a byte v # 0
RECURSIVE trailing_zeros(_)
trailing_zeros(v) == IF v % 2 = 1 THEN 0 ELSE 1 + trailing_zeros(v \div 2)

\* The inner `while v != 0` loop: the set bits of a byte, lowest first.
RECURSIVE byte_bits(_)
byte_bits(v) ==
    IF v = 0 THEN << >>
    ELSE LET lsb == trailing_zeros(v)
         IN  <<lsb>> \o byte_bits(v - Pow2(lsb))

\* cpu = index * 8 + lsb
cpu_of_bit(index, lsb) == index * 8 + lsb

\* for (index, &val) in byte_vec.iter().rev().enumerate(): the CPUs of one
\* mask in the order the loops visit them.
RECURSIVE mask_cpus_from(_, _)
mask_cpus_from(byte_vec, index) ==
    IF index >= Len(byte_vec) THEN << >>
    ELSE LET val  == byte_vec[Len(byte_vec) - index]
             bits == byte_bits(val)
         IN  [i \in 1..Len(bits) |-> cpu_of_bit(index, bits[i])]
                 \o mask_cpus_from(byte_vec, index + 1)

mask_cpus(byte_vec) == mask_cpus_from(byte_vec, 0)

\* Results of the constructors: a topology, an error value, or a panic.
NoTop == [nr_cpus |-> 0, nr_doms |-> 0, dom_cpus |-> << >>, cpu_dom |-> << >>]
TopOk(t) == [tag |-> "Ok", kind |-> "", cpu |-> NoDom, top |-> t]
TopErr(k, c) == [tag |-> "Err", kind |-> k, cpu |-> c, top |-> NoTop]
TopPanic == [tag |-> "Panic", kind |-> "index out of bounds", cpu |-> NoDom,
             top |-> NoTop]
TopPending == [tag |-> "Pending", kind |-> "", cpu |-> NoDom, top |-> NoTop]

\* if cpu > nr_cpus { bail!(...) }
cpu_out_of_range(cpu, nr) == cpu > nr

\* The body of the bit loop for one CPU of mask `dom`.  st is the builder's
\* state: cpu_dom (indexed 0..nr_cpus-1), dom_cpus (indexed 0..len-1) and
\* res, the early return if any.
assign_cpu(st, dom, cpu, nr) ==
    IF cpu_out_of_range(cpu, nr)
    THEN [st EXCEPT !.res = TopErr("CpuOutOfRange", cpu)]
    ELSE IF cpu \notin DOMAIN st.cpu_dom
    THEN [st EXCEPT !.res = TopPanic]              \* cpu_dom[cpu] out of bounds
    ELSE IF st.cpu_dom[cpu] # NoDom
    THEN [st EXCEPT !.res = TopErr("CpuDoubleAssigned", cpu)]
    ELSE [st EXCEPT !.cpu_dom[cpu] = dom,
                    !.dom_cpus[dom] = @ \cup {cpu}]

RECURSIVE assign_cpus(_, _, _, _)
assign_cpus(st, dom, cpus, nr) ==
    IF cpus = << >> \/ st.res.tag # "Pending" THEN st
    ELSE assign_cpus(assign_cpu(st, dom, Head(cpus), nr), dom, Tail(cpus), nr)

\* for (dom, cpumask) in cpumasks.iter().enumerate()
RECURSIVE assign_masks(_, _, _, _)
assign_masks(st, cpumasks, dom, nr) ==
    IF dom >= Len(cpumasks) \/ st.res.tag # "Pending" THEN st
    ELSE LET dec == hex_decode(hex_str(cpumasks[dom + 1]))
         IN  IF ~dec.ok
             THEN [st EXCEPT !.res = TopErr("ParseError", NoDom)]
             ELSE assign_masks(assign_cpus(st, dom, mask_cpus(dec.bytes), nr),
                               cpumasks, dom + 1, nr)

\* Mutant: the closing loop finds every CPU assigned.
first_unassigned_skipped(cpu_dom) == NoDom

\* The closing loop: the first CPU without a domain, or NoDom.
first_unassigned(cpu_dom) ==
    LET S == {c \in DOMAIN cpu_dom : cpu_dom[c] = NoDom}
    IN  IF S = {} THEN NoDom ELSE Min(S)

\* Mutant: the comparison with MAX_DOMS is missing.
too_many_doms_never(n) == FALSE

\* cpumasks.len() > MAX_DOMS (and nr_doms > MAX_DOMS in from_cache_level)
too_many_doms(n) == n > MAX_DOMS

from_cpumasks(cpumasks, nr) ==
    IF too_many_doms(Len(cpumasks)) THEN TopErr("TooManyDoms", NoDom)
    ELSE
    LET st0 == [cpu_dom  |-> [c \in 0..(nr - 1) |-> NoDom],
                dom_cpus |-> [d \in 0..(Len(cpumasks) - 1) |-> {}],
                res      |-> TopPending]
        st  == assign_masks(st0, cpumasks, 0, nr)
    IN  IF st.res.tag # "Pending" THEN st.res
        ELSE IF first_unassigned(st.cpu_dom) # NoDom
        THEN TopErr("CpuUnassigned", first_unassigned(st.cpu_dom))
        ELSE TopOk([nr_cpus  |-> nr,
                    nr_doms  |-> Len(cpumasks),
                    dom_cpus |-> st.dom_cpus,
                    cpu_dom  |-> st.cpu_dom])


(***************************************************************************)
(* Topology::from_cache_level                                              *)
(***************************************************************************)
\* Outcomes of std::fs::read_to_string on a CPU's cache id file.
FileOk(content) == [res |-> "Ok", val |-> content]
FileNotFound == [res |-> "NotFound", val |-> << >>]
FileIoError == [res |-> "IoError", val |-> << >>]

DecChars == {"0", "1", "2", "3", "4", "5", "6", "7", "8", "9"}
WhiteChars == {" ", "\n", "\t"}

\* str::trim
RECURSIVE trim_start(_)
trim_start(s) ==
    IF s # << >> /\ Head(s) \in WhiteChars THEN trim_start(Tail(s)) ELSE s

trim(s) == Reverse(trim_start(Reverse(trim_start(s))))

RECURSIVE dec_value(_)
dec_value(s) ==
    IF s = << >> THEN 0
    ELSE 10 * dec_value(SubSeq(s, 1, Len(s) - 1)) + hex_val(s[Len(s)])

\* val.trim().parse::<usize>(): NoDom stands for the parse error.
parse_usize(val) ==
    LET t == trim(val)
    IN  IF t = << >> \/ \E i \in 1..Len(t) : t[i] \notin DecChars
        THEN NoDom
        ELSE dec_value(t)

\* The first loop: cpu -> Some(cache id) / None (NoDom), or the early return.
RECURSIVE read_cache_ids(_, _, _, _)
read_cache_ids(files, cpu, nr, acc) ==
    IF cpu >= nr THEN [err |-> TopPending, cpu_to_cache |-> acc]
    ELSE LET f == files[cpu]
         IN  CASE f.res = "Ok" ->
                    IF parse_usize(f.val) = NoDom
                    THEN [err |-> TopErr("ParseError", cpu), cpu_to_cache |-> acc]
                    ELSE read_cache_ids(files, cpu + 1, nr,
                                        Append(acc, parse_usize(f.val)))
               [] f.res = "NotFound" ->
                    read_cache_ids(files, cpu + 1, nr, Append(acc, NoDom))
               [] OTHER ->
                    [err |-> TopErr("IoError", cpu), cpu_to_cache |-> acc]

\* Mutant: the cache ids are numbered in descending order.
cache_to_dom_descending(cache_ids) ==
    LET sorted == Reverse(SortAsc(cache_ids))
    IN  [id \in cache_ids |-> (CHOOSE i \in 1..Len(sorted) : sorted[i] = id) - 1]

\* cache_to_dom: the sorted cache ids get the consecutive domain ids.
cache_to_dom(cache_ids) ==
    LET sorted == SortAsc(cache_ids)
    IN  [id \in cache_ids |-> (CHOOSE i \in 1..Len(sorted) : sorted[i] = id) - 1]

\* The domain whose CPU-set receives an offline CPU's bit.
offline_dom == 0

\* The second loop, one CPU: st is [dom_cpus, cpu_dom (a sequence, pushed
\* to), panic].
place_cpu(st, cpu, cache, c2d) ==
    IF cache # NoDom
    THEN [st EXCEPT !.dom_cpus[c2d[cache]] = @ \cup {cpu},
                    !.cpu_dom = Append(@, c2d[cache])]
    ELSE IF offline_dom \notin DOMAIN st.dom_cpus
    THEN [st EXCEPT !.panic = TRUE]                \* dom_cpus[0] out of bounds
    ELSE [st EXCEPT !.dom_cpus[offline_dom] = @ \cup {cpu},
                    !.cpu_dom = Append(@, NoDom)]

RECURSIVE place_cpus(_, _, _, _, _)
place_cpus(st, cpu, nr, cpu_to_cache, c2d) ==
    IF cpu >= nr \/ st.panic THEN st
    ELSE place_cpus(place_cpu(st, cpu, cpu_to_cache[cpu + 1], c2d),
                    cpu + 1, nr, cpu_to_cache, c2d)

from_cache_level(files, nr) ==
    LET rd == read_cache_ids(files, 0, nr, << >>)
    IN  IF rd.err.tag # "Pending" THEN rd.err
        ELSE
        LET cache_ids == {rd.cpu_to_cache[i] : i \in 1..nr} \ {NoDom}
            c2d       == cache_to_dom(cache_ids)
            nr_doms   == Cardinality(cache_ids)
        IN  IF too_many_doms(nr_doms) THEN TopErr("TooManyDoms", NoDom)
            ELSE
            LET st0 == [dom_cpus |-> [d \in 0..(nr_doms - 1) |-> {}],
                        cpu_dom  |-> << >>,
                        panic    |-> FALSE]
                st  == place_cpus(st0, 0, nr, rd.cpu_to_cache, c2d)
            IN  IF st.panic THEN TopPanic
                ELSE TopOk([nr_cpus  |-> nr,
                            nr_doms  |-> nr_doms,
                            dom_cpus |-> st.dom_cpus,
                            cpu_dom  |-> [c \in 0..(nr - 1) |-> st.cpu_dom[c + 1]]])


(***************************************************************************)
(* State.                                                                  *)
(***************************************************************************)
VARIABLES
    \* Scheduler::init's inputs and the topology it builds
    opts_cpumasks,      \* Opts.cpumasks
    host_nr_cpus,       \* libbpf_rs::num_possible_cpus()
    cache_files,        \* cpu -> outcome of reading its cache id file
    top_res,            \* the constructor's result
    \* options
    skip_kworkers,      \* Scheduler.balanced_kworkers
    balance_load,       \* Scheduler.balance_load
    load_decay_factor,  \* Scheduler.load_decay_factor, in hundredths
    \* kernel-shared maps
    task_data,          \* pid -> task_ctx, written by the kernel
    lb_data,            \* pid -> target domain, written by the balancer
    \* Scheduler fields
    task_loads,         \* pid -> TaskLoad, kept between ticks
    nr_lb_data_errors,
    now_mono,           \* now_monotonic() at the tick
    \* LoadBalancer fields (one balancer tick)
    tasks_by_load,      \* dom -> (load -> TaskInfo)
    load_avg,
    dom_loads,
    imbal,
    doms_to_push,       \* imbalance -> dom
    doms_to_pull,       \* imbalance -> dom
    \* load_balance's locals
    push_dom,
    to_push,
    push_max,
    pushed,
    \* Tuner fields and the tune_input block shared with the kernel
    direct_greedy_under, \* Tuner.direct_greedy_under, in 1/UtilScale
    kick_greedy_under,   \* Tuner.kick_greedy_under, in 1/UtilScale
    prev_cpu_stats,      \* Tuner.prev_cpu_stats: cpu -> MyCpuStat
    curr_cpu_stats,      \* Tuner::step's curr_cpu_stats
    dom_nr_cpus,         \* Tuner::step's dom_nr_cpus
    dom_util_sum,        \* Tuner::step's dom_util_sum
    dom_utils,           \* Tuner.dom_utils
    tune_dom,            \* Tuner::step's second loop variable dom
    tune_input,          \* skel.bss().tune_input
    \* a kernel-side reader of tune_input
    rd_pc,
    rd_gen,
    rd_direct,
    rd_kick,
    rd_gen2,
    \* history: gen -> the masks the tick that set gen derived
    published,
    \* ticks run so far
    nr_tune_ticks,
    nr_sched_ticks,
    \* position of the control thread
    pc,
    \* history: the migrations selected in this tick, in order
    selected,
    \* history: per balancer tick, pid -> what read_task_loads computed
    load_samples,
    \* history: the entries of lb_data when this tick's load_balance began
    cleared,
    \* the shutdown flag the signal handler sets
    shutdown,
    \* bss.exit_type, written by the kernel
    exit_type,
    \* Instant::now(), and the `now` of the loop iteration under way
    clock,
    now_inst,
    \* the two deadlines of Scheduler::run
    next_tune_at,
    next_sched_at,
    \* position inside an iteration of the loop of Scheduler::run
    loop_pos,
    \* Scheduler.struct_ops: the link that keeps the kernel side attached
    struct_ops,
    \* what run returned to main
    run_result,
    \* the kernel's stats map: stat index -> CPU -> counter
    stats_map,
    \* read_bpf_stats: position, stat index and CPU at hand, the per-CPU
    \* values looked up for the index, the sums pushed so far
    st_pc,
    st_idx,
    st_cpu,
    st_vec,
    st_out,
    \* history: per stat index, the kernel's increments so far, those that
    \* fell on a CPU between its value's lookup and its reset, and the sum
    \* of what read_bpf_stats returned
    kernel_incs,
    window_incs,
    reported,
    \* calls of read_bpf_stats so far
    nr_stat_reads

topoVars == <<opts_cpumasks, host_nr_cpus, cache_files, top_res>>
optVars == <<skip_kworkers, balance_load, load_decay_factor>>
kernVars == <<task_data, now_mono>>
lbVars == <<tasks_by_load, load_avg, dom_loads, imbal, doms_to_push,
            doms_to_pull>>
planVars == <<push_dom, to_push, push_max, pushed>>
tuneVars == <<direct_greedy_under, kick_greedy_under, prev_cpu_stats,
              curr_cpu_stats, dom_nr_cpus, dom_util_sum, dom_utils, tune_dom,
              tune_input, published, nr_tune_ticks>>
readerVars == <<rd_pc, rd_gen, rd_direct, rd_kick, rd_gen2>>
drvVars == <<shutdown, exit_type, clock, now_inst, next_tune_at,
             next_sched_at, loop_pos, struct_ops, run_result>>
statVars == <<stats_map, st_pc, st_idx, st_cpu, st_vec, st_out, kernel_incs,
              window_incs, reported, nr_stat_reads>>
runVars == <<tuneVars, readerVars, nr_sched_ticks>>
vars == <<topoVars, optVars, kernVars, lb_data, task_loads,
          nr_lb_data_errors, lbVars, planVars, runVars, pc, selected,
          load_samples, cleared, drvVars, statVars>>

\* Scheduler.top
top == top_res.top

(***************************************************************************)
(* Maps (BTreeMap, BPF hash maps) are functions on their key sets.         *)
(***************************************************************************)
EmptyMap == << >>

\* BTreeMap::insert: the value of an existing key is replaced.
btree_insert(m, k, v) ==
    [x \in (DOMAIN m) \cup {k} |-> IF x = k THEN v ELSE m[x]]

map_remove(m, k) == [x \in (DOMAIN m) \ {k} |-> m[x]]

\* task.dom_mask & (1 << dom) != 0
mask_has_dom(dom_mask, dom) == (dom_mask \div Pow2(dom)) % 2 = 1

(***************************************************************************)
(* LoadBalancer constants, in hundredths.                                  *)
(***************************************************************************)
LOAD_IMBAL_HIGH_RATIO == 10
LOAD_IMBAL_XFER_TARGET_RATIO == 50
LOAD_IMBAL_PUSH_MAX_RATIO == 50

\* Opts.interval (seconds): the period between two balancer ticks.
sched_interval == 2

\* One unit of load is LoadScale model units: a multiple of every divisor
\* the balancer applies (the ratios' halves, nr_doms in 2..3, the period,
\* the halving of the decay in each of the ticks).
LoadScale == 32 * 3

\* Stands for 2^64 in the wrapping u64 subtraction: above every period.
U64Modulus == Pow2(20)

(***************************************************************************)
(* LoadBalancer::read_task_loads                                           *)
(***************************************************************************)
\* this_for - prev.runnable_for on u64, as a build without overflow checks
\* computes it
u64_sub(a, b) == IF a >= b THEN a - b ELSE a - b + U64Modulus

\* delta += now_mono - this_at on u64, as a build without overflow checks
\* computes it
u64_add(a, b) == (a + b) % U64Modulus

\* this_for - prev.runnable_for in a build with overflow checks: the
\* subtraction panics ("attempt to subtract with overflow").
sub_overflows(pid, task_ctx, prev_loads) ==
    /\ pid \in DOMAIN prev_loads
    /\ task_ctx.runnable_for < prev_loads[pid].runnable_for

\* (weight * delta / period).clamp(0.0, weight)
raw_load(weight, delta, period) ==
    LET v == (weight * LoadScale * delta) \div period
    IN  IF v < 0 THEN 0
        ELSE IF v > weight * LoadScale THEN weight * LoadScale
        ELSE v

\* prev_load * load_decay_factor + this_load * (1.0 - load_decay_factor)
decayed_load(prev_load, this_load, factor) ==
    (prev_load * factor + this_load * (100 - factor)) \div 100

\* dom_mask == (1u64 << dom_id): the task can run in its own domain only
\* and is not recorded in tasks_by_load.
not_eligible(task_ctx) == task_ctx.dom_mask = Pow2(task_ctx.dom_id)

\* The loop body for one key of task_data.  st holds this_task_loads,
\* load_sum, dom_loads and tasks_by_load, and the history of what was
\* computed for each pid.
read_task(st, pid, task_ctx, prev_loads, period, now, factor) ==
    LET this_at   == task_ctx.runnable_at
        this_for  == task_ctx.runnable_for
        weight    == task_ctx.weight
        has_prev  == pid \in DOMAIN prev_loads
        delta0    == IF has_prev
                     THEN u64_sub(this_for, prev_loads[pid].runnable_for)
                     ELSE this_for
        delta1    == IF this_at > 0 /\ this_at < now
                     THEN u64_add(delta0, now - this_at)
                     ELSE delta0
        delta     == IF delta1 < period THEN delta1 ELSE period
        raw       == raw_load(weight, delta, period)
        this_load == IF has_prev
                     THEN decayed_load(prev_loads[pid].load, raw, factor)
                     ELSE raw
        dom       == task_ctx.dom_id
        st1       == [st EXCEPT
                        !.this_task_loads =
                            btree_insert(@, pid, [runnable_for |-> this_for,
                                                  load |-> this_load]),
                        !.load_sum = @ + this_load,
                        !.dom_loads[dom] = @ + this_load,
                        !.samples =
                            btree_insert(@, pid,
                                [weight    |-> weight,
                                 delta0    |-> delta0,
                                 delta     |-> delta,
                                 raw       |-> raw,
                                 has_prev  |-> has_prev,
                                 prev_load |-> IF has_prev
                                               THEN prev_loads[pid].load
                                               ELSE 0,
                                 load      |-> this_load])]
    IN  IF not_eligible(task_ctx) THEN st1
        ELSE [st1 EXCEPT
                !.tasks_by_load[dom] =
                    btree_insert(@, this_load,
                                 [pid        |-> pid,
                                  dom_mask   |-> task_ctx.dom_mask,
                                  migrated   |-> FALSE,
                                  is_kworker |-> task_ctx.is_kworker])]

\* for key in task_data.keys(): the keys are visited in ascending order.
\* (The kernel map's order is unspecified.  The order matters only among
\* tasks of one domain with equal load, where the last one read stays in
\* tasks_by_load; the initial states draw every order among those.)
RECURSIVE read_tasks(_, _, _, _, _, _, _)
read_tasks(st, pids, tasks, prev_loads, period, now, factor) ==
    IF pids = << >> THEN st
    ELSE read_tasks(read_task(st, Head(pids), tasks[Head(pids)], prev_loads,
                              period, now, factor),
                    Tail(pids), tasks, prev_loads, period, now, factor)

\* *self.task_loads = this_task_loads
persist_task_loads_merged(prev, this) == this @@ prev

persist_task_loads(prev, this) == this

\* read_task_loads where no subtraction overflows, or in a build without
\* overflow checks.
ReadTaskLoads ==
    /\ pc = "read_task_loads"
    /\ LET doms == 0..(top.nr_doms - 1)
           st0  == [this_task_loads |-> EmptyMap,
                    load_sum        |-> 0,
                    dom_loads       |-> [d \in doms |-> 0],
                    tasks_by_load   |-> [d \in doms |-> EmptyMap],
                    samples         |-> EmptyMap]
           st   == read_tasks(st0, SortAsc(DOMAIN task_data), task_data,
                              task_loads, sched_interval, now_mono,
                              load_decay_factor)
       IN  /\ dom_loads' = st.dom_loads
           /\ tasks_by_load' = st.tasks_by_load
           /\ load_avg' = st.load_sum \div top.nr_doms
           /\ task_loads' = persist_task_loads(task_loads, st.this_task_loads)
           /\ load_samples' = Append(load_samples, st.samples)
    /\ pc' = "calculate_dom_load_balance"
    /\ UNCHANGED <<topoVars, optVars, runVars, kernVars, lb_data, nr_lb_data_errors,
                   imbal, doms_to_push, doms_to_pull, planVars, selected,
                   cleared, drvVars, statVars>>

\* read_task_loads in a build with overflow checks when the kernel's
\* runnable_for of some task is below the stored one: the thread panics.
ReadTaskLoadsPanic ==
    /\ pc = "read_task_loads"
    /\ \E pid \in DOMAIN task_data :
          sub_overflows(pid, task_data[pid], task_loads)
    /\ pc' = "panic"
    /\ UNCHANGED <<topoVars, optVars, runVars, kernVars, lb_data, task_loads,
                   nr_lb_data_errors, lbVars, planVars, selected,
                   load_samples, cleared, drvVars, statVars>>

(***************************************************************************)
(* LoadBalancer::calculate_dom_load_balance                                *)
(***************************************************************************)
\* imbal.abs() >= self.load_avg * LOAD_IMBAL_HIGH_RATIO
imbal_is_high(imb, avg) == Abs(imb) * 100 >= avg * LOAD_IMBAL_HIGH_RATIO

calc_dom_both_sides(st, dom, dom_load, avg) ==
    LET imb == dom_load - avg
    IN  IF ~imbal_is_high(imb, avg) THEN st
        ELSE [st EXCEPT !.doms_to_push = btree_insert(@, Abs(imb), dom),
                        !.doms_to_pull = btree_insert(@, Abs(imb), dom),
                        !.imbal[dom] = imb]

\* The loop body for one domain.  st holds imbal, doms_to_push, doms_to_pull.
calc_dom(st, dom, dom_load, avg) ==
    LET imb == dom_load - avg
    IN  IF ~imbal_is_high(imb, avg) THEN st
        ELSE IF imb > 0
        THEN [st EXCEPT !.doms_to_push = btree_insert(@, imb, dom),
                        !.imbal[dom] = imb]
        ELSE [st EXCEPT !.doms_to_pull = btree_insert(@, 0 - imb, dom),
                        !.imbal[dom] = imb]

RECURSIVE calc_doms(_, _, _, _, _)
calc_doms(st, dom, nr, loads, avg) ==
    IF dom >= nr THEN st
    ELSE calc_doms(calc_dom(st, dom, loads[dom], avg), dom + 1, nr, loads, avg)

CalculateDomLoadBalance ==
    /\ pc = "calculate_dom_load_balance"
    /\ LET st0 == [imbal |-> imbal, doms_to_push |-> doms_to_push,
                   doms_to_pull |-> doms_to_pull]
           st  == calc_doms(st0, 0, top.nr_doms, dom_loads, load_avg)
       IN  /\ imbal' = st.imbal
           /\ doms_to_push' = st.doms_to_push
           /\ doms_to_pull' = st.doms_to_pull
    /\ pc' = IF balance_load THEN "load_balance" ELSE "report"
    /\ UNCHANGED <<topoVars, optVars, runVars, kernVars, lb_data, task_loads,
                   nr_lb_data_errors, tasks_by_load, load_avg, dom_loads,
                   planVars, selected, load_samples, cleared, drvVars, statVars>>

(***************************************************************************)
(* LoadBalancer::find_first_candidate and pick_victim                      *)
(***************************************************************************)
NoTask == [pid |-> 0, dom_mask |-> 0, migrated |-> FALSE, is_kworker |-> FALSE]
NoVictim == [found |-> FALSE, load |-> 0, task |-> NoTask, new_imbal |-> 0]

\* Mutant: a task already migrated is a candidate again.
task_skipped_but_migrated(task, pull_dom, skip) ==
    \/ ~mask_has_dom(task.dom_mask, pull_dom)
    \/ (skip /\ task.is_kworker)

\* Mutant: the task's dom_mask is not consulted.
task_skipped_any_mask(task, pull_dom, skip) ==
    \/ task.migrated
    \/ (skip /\ task.is_kworker)

\* The skip_while predicate: the task was already migrated, cannot run in
\* pull_dom, or is a kworker while kworkers are skipped.
task_skipped(task, pull_dom, skip) ==
    \/ task.migrated
    \/ ~mask_has_dom(task.dom_mask, pull_dom)
    \/ (skip /\ task.is_kworker)

\* keys: the loads of the range scanned, in the iterator's order.
RECURSIVE find_first_candidate(_, _, _, _)
find_first_candidate(keys, tasks, pull_dom, skip) ==
    IF keys = << >> THEN NoVictim
    ELSE IF task_skipped(tasks[Head(keys)], pull_dom, skip)
    THEN find_first_candidate(Tail(keys), tasks, pull_dom, skip)
    ELSE [found |-> TRUE, load |-> Head(keys), task |-> tasks[Head(keys)],
          new_imbal |-> 0]

\* to_pull.min(to_push) * LOAD_IMBAL_XFER_TARGET_RATIO
xfer_target(push, pull) ==
    ((IF pull < push THEN pull ELSE push) * LOAD_IMBAL_XFER_TARGET_RATIO) \div 100

\* calc_new_imbal
calc_new_imbal(push, pull, xfer) == Abs(push - xfer) + Abs(pull - xfer)

\* .range((Unbounded, Included(to_xfer))).rev()
range_down(tasks, to_xfer) ==
    Reverse(SortAsc({k \in DOMAIN tasks : k <= to_xfer}))

\* .range((Included(to_xfer), Unbounded))
range_up(tasks, to_xfer) == SortAsc({k \in DOMAIN tasks : k >= to_xfer})

better_candidate_upper_on_tie(c0, c1, push, pull) ==
    LET new_imbal0 == calc_new_imbal(push, pull, c0.load)
        new_imbal1 == calc_new_imbal(push, pull, c1.load)
    IN  IF ~c0.found /\ ~c1.found THEN NoVictim
        ELSE IF ~c1.found THEN [c0 EXCEPT !.new_imbal = new_imbal0]
        ELSE IF ~c0.found THEN [c1 EXCEPT !.new_imbal = new_imbal1]
        ELSE IF new_imbal0 < new_imbal1
        THEN [c0 EXCEPT !.new_imbal = new_imbal0]
        ELSE [c1 EXCEPT !.new_imbal = new_imbal1]

\* The match on the two candidates: the better of the two.
better_candidate(c0, c1, push, pull) ==
    LET new_imbal0 == calc_new_imbal(push, pull, c0.load)
        new_imbal1 == calc_new_imbal(push, pull, c1.load)
    IN  IF ~c0.found /\ ~c1.found THEN NoVictim
        ELSE IF ~c1.found THEN [c0 EXCEPT !.new_imbal = new_imbal0]
        ELSE IF ~c0.found THEN [c1 EXCEPT !.new_imbal = new_imbal1]
        ELSE IF new_imbal0 <= new_imbal1
        THEN [c0 EXCEPT !.new_imbal = new_imbal0]
        ELSE [c1 EXCEPT !.new_imbal = new_imbal1]

\* if old_imbal < new_imbal { return None; }
cannot_reduce(old_imbal, new_imbal) == old_imbal < new_imbal

pick_victim(tasks, skip, push, pull_dom, pull) ==
    LET to_xfer == xfer_target(push, pull)
        best == better_candidate(
                    find_first_candidate(range_down(tasks, to_xfer), tasks,
                                         pull_dom, skip),
                    find_first_candidate(range_up(tasks, to_xfer), tasks,
                                         pull_dom, skip),
                    push, pull)
    IN  IF ~best.found THEN NoVictim
        ELSE IF cannot_reduce(push + pull, best.new_imbal) THEN NoVictim
        ELSE best

(***************************************************************************)
(* LoadBalancer::load_balance                                              *)
(***************************************************************************)
\* The most lb_data update failures the model lets happen.
MaxLbDataErrors == 1

clear_map_kept(m) == m

\* clear_map(self.maps.lb_data())
clear_map(m) == EmptyMap

pull_order_ascending(pulls) ==
    LET keys == SortAsc(DOMAIN pulls)
    IN  [i \in 1..Len(keys) |-> [to_pull |-> keys[i], dom |-> pulls[keys[i]]]]

\* doms_to_pull.into_iter().rev().collect(): (to_pull, pull_dom) pairs in
\* descending order of to_pull.
pull_order(pulls) ==
    LET keys == Reverse(SortAsc(DOMAIN pulls))
    IN  [i \in 1..Len(keys) |-> [to_pull |-> keys[i], dom |-> pulls[keys[i]]]]

\* for (to_pull, pull_dom) in pull_doms.iter_mut(): the index of the first
\* pair for which pick_victim returns a task, with the task; 0 if none.
RECURSIVE first_victim(_, _, _, _, _)
first_victim(pull_doms, i, tasks, skip, push) ==
    IF i > Len(pull_doms) THEN [idx |-> 0, victim |-> NoVictim]
    ELSE LET v == pick_victim(tasks, skip, push, pull_doms[i].dom,
                              pull_doms[i].to_pull)
         IN  IF v.found THEN [idx |-> i, victim |-> v]
             ELSE first_victim(pull_doms, i + 1, tasks, skip, push)

\* pull_doms.into_iter().map(|(k, v)| self.doms_to_pull.insert(k, v))
RECURSIVE reinsert_pulls(_, _)
reinsert_pulls(m, pull_doms) ==
    IF pull_doms = << >> THEN m
    ELSE reinsert_pulls(btree_insert(m, Head(pull_doms).to_pull,
                                     Head(pull_doms).dom),
                        Tail(pull_doms))

pass_ends_at_cap(now_pushed, last_pushed, max_push) ==
    now_pushed >= max_push

\* pushed == last_pushed || pushed >= push_max
pass_ends(now_pushed, last_pushed, max_push) ==
    now_pushed = last_pushed \/ now_pushed >= max_push

count_lb_data_error_never(n) == n

\* *self.nr_lb_data_errors += 1
count_lb_data_error(n) == n + 1

\* lb_data.update(pid, pull_dom, NO_EXIST): fails on an existing key, and
\* may fail for a reason of the kernel's (a stale pid, a full map).
update_outcomes(pid) ==
    IF pid \in DOMAIN lb_data THEN {FALSE}
    ELSE IF nr_lb_data_errors < MaxLbDataErrors THEN {TRUE, FALSE}
    ELSE {TRUE}

\* load_balance's first statement.
LoadBalanceClear ==
    /\ pc = "load_balance"
    /\ lb_data' = clear_map(lb_data)
    /\ cleared' = lb_data
    /\ pc' = "pop_push"
    /\ UNCHANGED <<topoVars, optVars, runVars, kernVars, task_loads, nr_lb_data_errors,
                   lbVars, planVars, selected, load_samples, drvVars,
                   statVars>>

\* while let Some((to_push, push_dom)) = self.doms_to_push.pop_last()
PopPush ==
    /\ pc = "pop_push"
    /\ doms_to_push # EmptyMap
    /\ LET k == Max(DOMAIN doms_to_push)
       IN  /\ to_push' = k
           /\ push_dom' = doms_to_push[k]
           /\ push_max' = (dom_loads[doms_to_push[k]] * LOAD_IMBAL_PUSH_MAX_RATIO)
                              \div 100
           /\ doms_to_push' = map_remove(doms_to_push, k)
    /\ pushed' = 0
    /\ pc' = "pass"
    /\ UNCHANGED <<topoVars, optVars, runVars, kernVars, lb_data, task_loads,
                   nr_lb_data_errors, tasks_by_load, load_avg, dom_loads,
                   imbal, doms_to_pull, selected, load_samples, cleared, drvVars, statVars>>

\* pop_last() returns None: load_balance returns Ok(()).
LoadBalanceDone ==
    /\ pc = "pop_push"
    /\ doms_to_push = EmptyMap
    /\ pc' = "report"
    /\ UNCHANGED <<topoVars, optVars, runVars, kernVars, lb_data, task_loads,
                   nr_lb_data_errors, lbVars, planVars, selected, load_samples, cleared, drvVars, statVars>>

\* One iteration of the inner `loop`.
Pass ==
    /\ pc = "pass"
    /\ LET last_pushed == pushed
           pull_doms   == pull_order(doms_to_pull)
           fv          == first_victim(pull_doms, 1, tasks_by_load[push_dom],
                                       skip_kworkers, to_push)
           load        == fv.victim.load
       IN  IF fv.idx = 0
           THEN /\ doms_to_pull' = reinsert_pulls(EmptyMap, pull_doms)
                /\ pc' = IF pass_ends(pushed, last_pushed, push_max)
                         THEN "pop_push" ELSE "pass"
                /\ UNCHANGED <<tasks_by_load, to_push, pushed, lb_data,
                               nr_lb_data_errors, selected>>
           ELSE \E ok \in update_outcomes(fv.victim.task.pid) :
                /\ tasks_by_load' =
                       [tasks_by_load EXCEPT ![push_dom][load].migrated = TRUE]
                /\ to_push' = to_push - load
                /\ pushed' = pushed + load
                /\ doms_to_pull' =
                       reinsert_pulls(EmptyMap,
                           [pull_doms EXCEPT ![fv.idx].to_pull = @ - load])
                /\ lb_data' = IF ok
                              THEN btree_insert(lb_data, fv.victim.task.pid,
                                                pull_doms[fv.idx].dom)
                              ELSE lb_data
                /\ nr_lb_data_errors' =
                       IF ok THEN nr_lb_data_errors
                       ELSE count_lb_data_error(nr_lb_data_errors)
                /\ selected' = Append(selected,
                       [pid        |-> fv.victim.task.pid,
                        load       |-> load,
                        dom_mask   |-> fv.victim.task.dom_mask,
                        is_kworker |-> fv.victim.task.is_kworker,
                        push_dom   |-> push_dom,
                        pull_dom   |-> pull_doms[fv.idx].dom,
                        to_push    |-> to_push,
                        to_pull    |-> pull_doms[fv.idx].to_pull,
                        new_imbal  |-> fv.victim.new_imbal,
                        written    |-> ok])
                /\ pc' = IF pass_ends(pushed + load, last_pushed, push_max)
                         THEN "pop_push" ELSE "pass"
    /\ UNCHANGED <<topoVars, optVars, runVars, kernVars, task_loads, load_avg,
                   dom_loads, imbal, doms_to_push, push_dom, push_max,
                   load_samples, cleared, drvVars, statVars>>

\* The rest of lb_step: the report.
Report ==
    /\ pc = "report"
    /\ pc' = "run"
    /\ UNCHANGED <<topoVars, optVars, runVars, kernVars, lb_data, task_loads,
                   nr_lb_data_errors, lbVars, planVars, selected, load_samples, cleared, drvVars, statVars>>

(***************************************************************************)
(* Scheduler::lb_step                                                      *)
(***************************************************************************)
\* LoadBalancer::new
LbStepNew ==
    /\ pc = "lb_step"
    /\ tasks_by_load' = [d \in 0..(top.nr_doms - 1) |-> EmptyMap]
    /\ load_avg' = 0
    /\ dom_loads' = [d \in 0..(top.nr_doms - 1) |-> 0]
    /\ imbal' = [d \in 0..(top.nr_doms - 1) |-> 0]
    /\ doms_to_pull' = EmptyMap
    /\ doms_to_push' = EmptyMap
    /\ selected' = << >>
    /\ pc' = "read_task_loads"
    /\ UNCHANGED <<topoVars, optVars, runVars, kernVars, lb_data, task_loads,
                   nr_lb_data_errors, planVars, load_samples, cleared, drvVars, statVars>>

(***************************************************************************)
(* Scheduler::init: the topology.                                          *)
(***************************************************************************)
\* Topology::from_cpumasks(&opts.cpumasks, nr_cpus) when masks are given
InitFromCpumasks ==
    /\ pc = "init"
    /\ Len(opts_cpumasks) > 0
    /\ top_res' = from_cpumasks(opts_cpumasks, host_nr_cpus)
    /\ pc' = "init_done"
    /\ UNCHANGED <<opts_cpumasks, host_nr_cpus, cache_files, optVars, runVars, kernVars,
                   lb_data, task_loads, nr_lb_data_errors, lbVars, planVars,
                   selected, load_samples, cleared, drvVars, statVars>>

\* Topology::from_cache_level(opts.cache_level, nr_cpus) otherwise
InitFromCacheLevel ==
    /\ pc = "init"
    /\ Len(opts_cpumasks) = 0
    /\ top_res' = from_cache_level(cache_files, host_nr_cpus)
    /\ pc' = "init_done"
    /\ UNCHANGED <<opts_cpumasks, host_nr_cpus, cache_files, optVars, runVars, kernVars,
                   lb_data, task_loads, nr_lb_data_errors, lbVars, planVars,
                   selected, load_samples, cleared, drvVars, statVars>>

(***************************************************************************)
(* MyCpuStat and the Tuner.  Utilizations and thresholds are integers in   *)
(* units of 1/UtilScale; the snapshots drawn make every division exact.    *)
(***************************************************************************)
UtilScale == 2 * 100000
\* The options direct_greedy_under and kick_greedy_under are percentages,
\* held in units of 1/OptScale percent.
OptScale == 10 * 10

\* Mutant: iowait is counted as busy time.
busy_with_iowait(st) ==
    LET busy == st.user + st.system + st.nice + st.irq + st.softirq + st.steal
                    + st.iowait
    IN  [busy |-> busy, total |-> st.idle + busy]

\* MyCpuStat::busy_and_total
busy_and_total(st) ==
    LET busy == st.user + st.system + st.nice + st.irq + st.softirq + st.steal
    IN  [busy |-> busy, total |-> st.idle + busy + st.iowait]

\* f64::clamp(0.0, 1.0)
clamp_unit(x) == IF x < 0 THEN 0 ELSE IF x > UtilScale THEN UtilScale ELSE x

\* MyCpuStat::calc_util.  (The counters drawn never decrease, so the u64
\* subtractions do not wrap.)
calc_util(curr, prev) ==
    LET c     == busy_and_total(curr)
        p     == busy_and_total(prev)
        busy  == c.busy - p.busy
        total == c.total - p.total
    IN  IF total > 0 THEN clamp_unit((busy * UtilScale) \div total)
        ELSE UtilScale

\* opts.direct_greedy_under / 100.0
greedy_under(opt) == (opt * UtilScale) \div (100 * OptScale)

\* Mutant: the comparison with the utilization is turned around.
greedy_bit_above(under, util) ==
    under > 99999 * (UtilScale \div 100000) \/ util > under

\* Mutant: a domain with no counted CPU is given utilization 1.0.
dom_util_or_full(nr, sum) == IF nr = 0 THEN UtilScale ELSE sum \div nr

\* The literal 0.99999
always_on_above == 99999 * (UtilScale \div 100000)

\* if let (Some(dom), Some(curr), Some(prev)) = (...)
cpu_counted(t, curr, prev, cpu) ==
    /\ t.cpu_dom[cpu] # NoDom
    /\ cpu \in DOMAIN curr
    /\ cpu \in DOMAIN prev

\* The first loop of Tuner::step: st is [dom_nr_cpus, dom_util_sum].
RECURSIVE tune_accumulate(_, _, _, _, _)
tune_accumulate(st, cpu, t, curr, prev) ==
    IF cpu >= t.nr_cpus THEN st
    ELSE IF cpu_counted(t, curr, prev, cpu)
    THEN tune_accumulate(
             [st EXCEPT !.dom_nr_cpus[t.cpu_dom[cpu]] = @ + 1,
                        !.dom_util_sum[t.cpu_dom[cpu]] =
                            @ + calc_util(curr[cpu], prev[cpu])],
             cpu + 1, t, curr, prev)
    ELSE tune_accumulate(st, cpu + 1, t, curr, prev)

\* match dom_nr_cpus[dom] { 0 => 0.0, nr => dom_util_sum[dom] / nr }
dom_util(nr, sum) == IF nr = 0 THEN 0 ELSE sum \div nr

\* self.direct_greedy_under > 0.99999 || util < self.direct_greedy_under
greedy_bit(under, util) == under > always_on_above \/ util < under

\* Mutant: bits are set and never cleared.
update_dom_bits_set_only(target, t, dom, val) ==
    IF val
    THEN target \cup {cpu \in 0..(t.nr_cpus - 1) : t.cpu_dom[cpu] = dom}
    ELSE target

\* The closure update_dom_bits: a mask is the set of the CPUs whose bit is 1.
update_dom_bits(target, t, dom, val) ==
    LET dom_bits == {cpu \in 0..(t.nr_cpus - 1) : t.cpu_dom[cpu] = dom}
    IN  IF val THEN target \cup dom_bits ELSE target \ dom_bits

\* The second loop of Tuner::step for one mask and its threshold.
RECURSIVE tune_mask(_, _, _, _, _)
tune_mask(target, t, dom, utils, under) ==
    IF dom >= t.nr_doms THEN target
    ELSE tune_mask(update_dom_bits(target, t, dom,
                                   greedy_bit(under, utils[dom])),
                   t, dom + 1, utils, under)

next_gen_twice(gen) == gen + 2

\* ti.gen += 1
next_gen(gen) == gen + 1

\* Snapshots of one CPU's counters: all zero, 49 busy ticks in 100, 100 idle
\* ticks, 99 busy ticks in 200.
StatZero ==
    [user |-> 0, nice |-> 0, system |-> 0, idle |-> 0, iowait |-> 0,
     irq |-> 0, softirq |-> 0, steal |-> 0]
StatPool ==
    {StatZero,
     [user |-> 25, nice |-> 6, system |-> 12, idle |-> 50, iowait |-> 1,
      irq |-> 3, softirq |-> 2, steal |-> 1],
     [user |-> 0, nice |-> 0, system |-> 0, idle |-> 100, iowait |-> 0,
      irq |-> 0, softirq |-> 0, steal |-> 0],
     [user |-> 50, nice |-> 12, system |-> 24, idle |-> 100, iowait |-> 1,
      irq |-> 6, softirq |-> 4, steal |-> 3]}

\* No counter of a is above b's.
StatLeq(a, b) == \A f \in DOMAIN a : a[f] <= b[f]

\* What MyProcStat::read() may return after prev: any set of CPUs listed,
\* each with counters that did not decrease.
ProcStats(nr, prev) ==
    UNION {{f \in [up -> StatPool] :
               \A c \in up \cap DOMAIN prev : StatLeq(prev[c], f[c])} :
           up \in SUBSET (0..(nr - 1))}

\* The most tuner ticks and balancer ticks of one run.
MaxTuneTicks == 2
MaxSchedTicks == 3

\* Scheduler::run: the tuner's turn.
RunTune ==
    /\ pc = "run"
    /\ nr_tune_ticks < MaxTuneTicks
    /\ nr_tune_ticks' = nr_tune_ticks + 1
    /\ pc' = "tune_read"
    /\ UNCHANGED <<topoVars, optVars, kernVars, lb_data, task_loads,
                   nr_lb_data_errors, lbVars, planVars, selected, load_samples, cleared, drvVars, statVars,
                   direct_greedy_under, kick_greedy_under, prev_cpu_stats,
                   curr_cpu_stats, dom_nr_cpus, dom_util_sum, dom_utils,
                   tune_dom, tune_input, published, readerVars,
                   nr_sched_ticks>>

\* Tuner::step up to the end of its first loop.
TunerRead ==
    /\ pc = "tune_read"
    /\ \E stats \in ProcStats(top.nr_cpus, prev_cpu_stats) :
          LET st == tune_accumulate(
                        [dom_nr_cpus  |-> [d \in 0..(top.nr_doms - 1) |-> 0],
                         dom_util_sum |-> [d \in 0..(top.nr_doms - 1) |-> 0]],
                        0, top, stats, prev_cpu_stats)
          IN  /\ curr_cpu_stats' = stats
              /\ dom_nr_cpus' = st.dom_nr_cpus
              /\ dom_util_sum' = st.dom_util_sum
    /\ tune_dom' = 0
    /\ pc' = "tune_direct"
    /\ UNCHANGED <<topoVars, optVars, kernVars, lb_data, task_loads,
                   nr_lb_data_errors, lbVars, planVars, selected, load_samples, cleared, drvVars, statVars,
                   direct_greedy_under, kick_greedy_under, prev_cpu_stats,
                   dom_utils, tune_input, published, nr_tune_ticks,
                   readerVars, nr_sched_ticks>>

\* MyProcStat::read()? fails: step returns the error and run() ends.
TunerReadFail ==
    /\ pc = "tune_read"
    /\ pc' = "exit"
    /\ UNCHANGED <<topoVars, optVars, kernVars, lb_data, task_loads,
                   nr_lb_data_errors, lbVars, planVars, selected, load_samples, cleared, drvVars, statVars, runVars>>

\* The second loop for one dom: its utilization and its bits of
\* direct_greedy_cpumask.
TunerDirect ==
    /\ pc = "tune_direct"
    /\ LET util == dom_util(dom_nr_cpus[tune_dom], dom_util_sum[tune_dom])
       IN  /\ dom_utils' = [dom_utils EXCEPT ![tune_dom] = util]
           /\ tune_input' =
                  [tune_input EXCEPT !.direct_greedy_cpumask =
                      update_dom_bits(@, top, tune_dom,
                                      greedy_bit(direct_greedy_under, util))]
    /\ pc' = "tune_kick"
    /\ UNCHANGED <<topoVars, optVars, kernVars, lb_data, task_loads,
                   nr_lb_data_errors, lbVars, planVars, selected, load_samples, cleared, drvVars, statVars,
                   direct_greedy_under, kick_greedy_under, prev_cpu_stats,
                   curr_cpu_stats, dom_nr_cpus, dom_util_sum, tune_dom,
                   published, nr_tune_ticks, readerVars, nr_sched_ticks>>

\* The same dom's bits of kick_greedy_cpumask, and the loop's step.
TunerKick ==
    /\ pc = "tune_kick"
    /\ tune_input' =
           [tune_input EXCEPT !.kick_greedy_cpumask =
               update_dom_bits(@, top, tune_dom,
                               greedy_bit(kick_greedy_under,
                                          dom_utils[tune_dom]))]
    /\ tune_dom' = tune_dom + 1
    /\ pc' = IF tune_dom + 1 < top.nr_doms THEN "tune_direct" ELSE "tune_gen"
    /\ UNCHANGED <<topoVars, optVars, kernVars, lb_data, task_loads,
                   nr_lb_data_errors, lbVars, planVars, selected, load_samples, cleared, drvVars, statVars,
                   direct_greedy_under, kick_greedy_under, prev_cpu_stats,
                   curr_cpu_stats, dom_nr_cpus, dom_util_sum, dom_utils,
                   published, nr_tune_ticks, readerVars, nr_sched_ticks>>

\* ti.gen += 1; self.prev_cpu_stats = curr_cpu_stats; Ok(()).  The locals
\* go out of scope, curr_cpu_stats is moved.
TunerGen ==
    /\ pc = "tune_gen"
    /\ tune_input' = [tune_input EXCEPT !.gen = next_gen(@)]
    /\ prev_cpu_stats' = curr_cpu_stats
    /\ curr_cpu_stats' = EmptyMap
    /\ dom_nr_cpus' = [d \in 0..(top.nr_doms - 1) |-> 0]
    /\ dom_util_sum' = [d \in 0..(top.nr_doms - 1) |-> 0]
    /\ tune_dom' = 0
    /\ published' =
           [g \in DOMAIN published \cup {next_gen(tune_input.gen)} |->
               IF g = next_gen(tune_input.gen)
               THEN [direct_greedy_cpumask |-> tune_input.direct_greedy_cpumask,
                     kick_greedy_cpumask   |-> tune_input.kick_greedy_cpumask]
               ELSE published[g]]
    /\ pc' = "run"
    /\ UNCHANGED <<topoVars, optVars, kernVars, lb_data, task_loads,
                   nr_lb_data_errors, lbVars, planVars, selected, load_samples, cleared, drvVars, statVars,
                   direct_greedy_under, kick_greedy_under, dom_utils,
                   nr_tune_ticks, readerVars, nr_sched_ticks>>

(***************************************************************************)
(* A kernel-side reader of tune_input: it reads gen, the two masks, and    *)
(* gen again, each in a step of its own, while the tuner runs.             *)
(***************************************************************************)
ReaderGen ==
    /\ rd_pc = "idle"
    /\ rd_gen' = tune_input.gen
    /\ rd_pc' = "direct"
    /\ UNCHANGED <<topoVars, optVars, kernVars, lb_data, task_loads,
                   nr_lb_data_errors, lbVars, planVars, selected, load_samples, cleared, drvVars, statVars, tuneVars,
                   rd_direct, rd_kick, rd_gen2, nr_sched_ticks, pc>>

ReaderDirect ==
    /\ rd_pc = "direct"
    /\ rd_direct' = tune_input.direct_greedy_cpumask
    /\ rd_pc' = "kick"
    /\ UNCHANGED <<topoVars, optVars, kernVars, lb_data, task_loads,
                   nr_lb_data_errors, lbVars, planVars, selected, load_samples, cleared, drvVars, statVars, tuneVars,
                   rd_gen, rd_kick, rd_gen2, nr_sched_ticks, pc>>

ReaderKick ==
    /\ rd_pc = "kick"
    /\ rd_kick' = tune_input.kick_greedy_cpumask
    /\ rd_pc' = "gen2"
    /\ UNCHANGED <<topoVars, optVars, kernVars, lb_data, task_loads,
                   nr_lb_data_errors, lbVars, planVars, selected, load_samples, cleared, drvVars, statVars, tuneVars,
                   rd_gen, rd_direct, rd_gen2, nr_sched_ticks, pc>>

ReaderGenAgain ==
    /\ rd_pc = "gen2"
    /\ rd_gen2' = tune_input.gen
    /\ rd_pc' = "done"
    /\ UNCHANGED <<topoVars, optVars, kernVars, lb_data, task_loads,
                   nr_lb_data_errors, lbVars, planVars, selected, load_samples, cleared, drvVars, statVars, tuneVars,
                   rd_gen, rd_direct, rd_kick, nr_sched_ticks, pc>>

(***************************************************************************)
(* Scheduler::run: the balancer's turn.                                    *)
(***************************************************************************)
\* next_sched_at is reached: lb_step runs one sched_interval after the
\* previous one.
RunLbStep ==
    /\ pc = "run"
    /\ nr_sched_ticks < MaxSchedTicks
    /\ nr_sched_ticks' = nr_sched_ticks + 1
    /\ now_mono' = now_mono + sched_interval
    /\ pc' = "lb_step"
    /\ UNCHANGED <<topoVars, optVars, task_data, lb_data, task_loads,
                   nr_lb_data_errors, lbVars, planVars, selected, load_samples, cleared, drvVars, statVars,
                   tuneVars, readerVars>>

(***************************************************************************)
(* Scheduler::run, step by step: the loop test, the two deadlines, the     *)
(* sleep; then report_bpf_exit_type and the return through main, which     *)
(* drops the Scheduler.  Time is in seconds.                               *)
(***************************************************************************)
\* Opts.tune_interval, given as 1 second on the command line
tune_interval == 1

\* The longest time the model's clock reaches.
MaxClock == 5

\* What a tick may take: no time to speak of, or three seconds.
TickDurations == {0, 3}

\* Nonzero values of bss.exit_type: 2 is read as an error exit, the
\* other ones are not.
ExitTypes == {1, 2}

advance_accumulated(deadline, interval, now) == deadline + interval

\* next_at += interval; if next_at < now { next_at = now + interval }
advance(deadline, interval, now) ==
    IF deadline + interval < now THEN now + interval ELSE deadline + interval

\* while !shutdown.load(Relaxed) && self.read_bpf_exit_type() == 0
\* { let now = Instant::now(); ...
DrvLoopTest ==
    /\ pc = "run"
    /\ loop_pos = "top"
    /\ IF shutdown \/ exit_type # 0
       THEN /\ pc' = "report_exit"
            /\ UNCHANGED <<now_inst, loop_pos>>
       ELSE /\ now_inst' = clock
            /\ loop_pos' = "tune"
            /\ pc' = pc
    /\ UNCHANGED <<topoVars, optVars, kernVars, lb_data, task_loads,
                   nr_lb_data_errors, lbVars, planVars, selected,
                   load_samples, cleared, runVars, statVars, shutdown,
                   exit_type, clock, next_tune_at, next_sched_at, struct_ops,
                   run_result>>

\* if now >= next_tune_at { self.tuner.step(...)
DrvTuneDue ==
    /\ pc = "run"
    /\ loop_pos = "tune"
    /\ IF now_inst >= next_tune_at
       THEN /\ pc' = "tune_read"
            /\ loop_pos' = "tune_done"
            /\ nr_tune_ticks' = nr_tune_ticks + 1
       ELSE /\ pc' = pc
            /\ loop_pos' = "sched"
            /\ nr_tune_ticks' = nr_tune_ticks
    /\ UNCHANGED <<topoVars, optVars, kernVars, lb_data, task_loads,
                   nr_lb_data_errors, lbVars, planVars, selected,
                   load_samples, cleared, statVars, shutdown, exit_type,
                   clock, now_inst, next_tune_at, next_sched_at, struct_ops,
                   run_result, direct_greedy_under, kick_greedy_under,
                   prev_cpu_stats, curr_cpu_stats, dom_nr_cpus, dom_util_sum,
                   dom_utils, tune_dom, tune_input, published, readerVars,
                   nr_sched_ticks>>

\* ... next_tune_at += self.tune_interval; if next_tune_at < now {...} }
\* The step took some time.
DrvTuneAdvance ==
    /\ pc = "run"
    /\ loop_pos = "tune_done"
    /\ \E took \in TickDurations :
          /\ clock + took <= MaxClock
          /\ clock' = clock + took
    /\ next_tune_at' = advance(next_tune_at, tune_interval, now_inst)
    /\ loop_pos' = "sched"
    /\ UNCHANGED <<topoVars, optVars, kernVars, lb_data, task_loads,
                   nr_lb_data_errors, lbVars, planVars, selected,
                   load_samples, cleared, runVars, statVars, shutdown,
                   exit_type, now_inst, next_sched_at, struct_ops,
                   run_result, pc>>

\* if now >= next_sched_at { self.lb_step()
DrvSchedDue ==
    /\ pc = "run"
    /\ loop_pos = "sched"
    /\ IF now_inst >= next_sched_at
       THEN /\ pc' = "lb_step"
            /\ loop_pos' = "sched_done"
            /\ nr_sched_ticks' = nr_sched_ticks + 1
            /\ now_mono' = now_mono + sched_interval
       ELSE /\ pc' = pc
            /\ loop_pos' = "sleep"
            /\ nr_sched_ticks' = nr_sched_ticks
            /\ now_mono' = now_mono
    /\ UNCHANGED <<topoVars, optVars, task_data, lb_data, task_loads,
                   nr_lb_data_errors, lbVars, planVars, selected,
                   load_samples, cleared, statVars, shutdown, exit_type,
                   clock, now_inst, next_tune_at, next_sched_at, struct_ops,
                   run_result, tuneVars, readerVars>>

\* ... next_sched_at += self.sched_interval; if next_sched_at < now {...} }
DrvSchedAdvance ==
    /\ pc = "run"
    /\ loop_pos = "sched_done"
    /\ \E took \in TickDurations :
          /\ clock + took <= MaxClock
          /\ clock' = clock + took
    /\ next_sched_at' = advance(next_sched_at, sched_interval, now_inst)
    /\ loop_pos' = "sleep"
    /\ UNCHANGED <<topoVars, optVars, kernVars, lb_data, task_loads,
                   nr_lb_data_errors, lbVars, planVars, selected,
                   load_samples, cleared, runVars, statVars, shutdown,
                   exit_type, now_inst, next_tune_at, struct_ops,
                   run_result, pc>>

\* std::thread::sleep(next_sched_at.min(next_tune_at)
\*                        .duration_since(Instant::now()))
\* The thread wakes at the earlier deadline, or goes on at once when that
\* is past.
DrvSleep ==
    /\ pc = "run"
    /\ loop_pos = "sleep"
    /\ LET wake == IF next_sched_at < next_tune_at THEN next_sched_at
                   ELSE next_tune_at
       IN  /\ wake <= MaxClock
           /\ clock' = IF wake > clock THEN wake ELSE clock
    /\ loop_pos' = "top"
    /\ UNCHANGED <<topoVars, optVars, kernVars, lb_data, task_loads,
                   nr_lb_data_errors, lbVars, planVars, selected,
                   load_samples, cleared, runVars, statVars, shutdown,
                   exit_type, now_inst, next_tune_at, next_sched_at,
                   struct_ops, run_result, pc>>

\* lb_step: read_bpf_stats or get_cpu_busy returns an error.
LbStepReadFail ==
    /\ pc = "lb_step"
    /\ pc' = "exit"
    /\ UNCHANGED <<topoVars, optVars, kernVars, lb_data, task_loads,
                   nr_lb_data_errors, lbVars, planVars, selected,
                   load_samples, cleared, runVars, statVars, drvVars>>

\* read_task_loads: a lookup in task_data returns an error, or a key has
\* not the length of a pid.  this_task_loads is dropped with the error.
ReadTaskLoadsFail ==
    /\ pc = "read_task_loads"
    /\ task_data # EmptyMap
    /\ pc' = "exit"
    /\ UNCHANGED <<topoVars, optVars, kernVars, lb_data, task_loads,
                   nr_lb_data_errors, lbVars, planVars, selected,
                   load_samples, cleared, runVars, statVars, drvVars>>

\* bss.exit_type == 2: bail!("BPF exit_type={} msg={}", ...)
exit_is_error(etype) == etype = 2

\* self.report_bpf_exit_type(), the value of run after the loop
DrvReportExit ==
    /\ pc = "report_exit"
    /\ pc' = IF exit_is_error(exit_type) THEN "ret_err" ELSE "ret_ok"
    /\ UNCHANGED <<topoVars, optVars, kernVars, lb_data, task_loads,
                   nr_lb_data_errors, lbVars, planVars, selected,
                   load_samples, cleared, runVars, statVars, drvVars>>

\* How run came to return: Ok from report_bpf_exit_type, or an error from
\* it or from a tick ("exit").
returned_as(at) == IF at = "ret_ok" THEN "Ok" ELSE "Err"

drop_struct_ops_kept(link) == link

\* if let Some(struct_ops) = self.struct_ops.take() { drop(struct_ops) }
drop_struct_ops(link) == "detached"

\* main returns what run returned; sched goes out of scope: Drop for
\* Scheduler.
DrvReturn ==
    /\ pc \in {"ret_ok", "ret_err", "exit"}
    /\ run_result' = returned_as(pc)
    /\ struct_ops' = drop_struct_ops(struct_ops)
    /\ pc' = "returned"
    /\ UNCHANGED <<topoVars, optVars, kernVars, lb_data, task_loads,
                   nr_lb_data_errors, lbVars, planVars, selected,
                   load_samples, cleared, runVars, statVars, shutdown,
                   exit_type, clock, now_inst, next_tune_at, next_sched_at,
                   loop_pos>>

\* The Ctrl-C handler: shutdown_clone.store(true, Relaxed), at any moment.
SetShutdown ==
    /\ ~shutdown
    /\ pc # "returned"
    /\ shutdown' = TRUE
    /\ UNCHANGED <<topoVars, optVars, kernVars, lb_data, task_loads,
                   nr_lb_data_errors, lbVars, planVars, selected,
                   load_samples, cleared, runVars, statVars, exit_type,
                   clock, now_inst, next_tune_at, next_sched_at, loop_pos,
                   struct_ops, run_result, pc>>

\* The kernel side exits and writes exit_type, at any moment.
KernelExit ==
    /\ exit_type = 0
    /\ pc # "returned"
    /\ exit_type' \in ExitTypes
    /\ UNCHANGED <<topoVars, optVars, kernVars, lb_data, task_loads,
                   nr_lb_data_errors, lbVars, planVars, selected,
                   load_samples, cleared, runVars, statVars, shutdown,
                   clock, now_inst, next_tune_at, next_sched_at, loop_pos,
                   struct_ops, run_result, pc>>

\* The driver's variables where run is not modelled step by step.
DrvIdle ==
    /\ shutdown = FALSE
    /\ exit_type = 0
    /\ clock = 0
    /\ now_inst = 0
    /\ next_tune_at = 0
    /\ next_sched_at = 0
    /\ loop_pos = "top"
    /\ struct_ops = "attached"
    /\ run_result = "none"

(***************************************************************************)
(* Scheduler::read_bpf_stats, one map access per step; each access to a    *)
(* per-CPU value goes CPU by CPU while the kernel side goes on counting.   *)
(***************************************************************************)
\* atropos_sys::stat_idx_ATROPOS_NR_STATS, cut down to two counters
NR_STATS == 2

\* How many increments the kernel side makes in all.
MaxIncs == 3

\* How many times read_bpf_stats is called.
MaxStatReads == 2

StatIdxs == 0..(NR_STATS - 1)

StatCpus == 0..(host_nr_cpus - 1)

\* An increment of (idx, cpu) now lands after lookup_percpu has copied the
\* CPU's value and before update_percpu has overwritten it.
InWindow(idx, cpu) ==
    /\ idx = st_idx
    /\ \/ st_pc = "lookup" /\ cpu < st_cpu
       \/ st_pc = "zero" /\ cpu >= st_cpu

\* The kernel side adds one to a counter of the CPU it runs on.  The
\* addition is taken as one step on the counter.
KernelInc ==
    /\ SeqSum([i \in 1..NR_STATS |-> kernel_incs[i - 1]]) < MaxIncs
    /\ st_pc # "exit"
    /\ \E idx \in StatIdxs, cpu \in StatCpus :
          /\ stats_map' = [stats_map EXCEPT ![idx][cpu] = u64_add(@, 1)]
          /\ kernel_incs' = [kernel_incs EXCEPT ![idx] = @ + 1]
          /\ window_incs' = [window_incs EXCEPT
                                ![idx] = @ + IF InWindow(idx, cpu) THEN 1
                                             ELSE 0]
    /\ UNCHANGED <<topoVars, optVars, kernVars, lb_data, task_loads,
                   nr_lb_data_errors, lbVars, planVars, selected,
                   load_samples, cleared, runVars, drvVars, pc, st_pc,
                   st_idx, st_cpu, st_vec, st_out, reported, nr_stat_reads>>

\* let mut stats: Vec<u64> = Vec::new(); for stat in 0..NR_STATS {
StatsStart ==
    /\ st_pc = "idle"
    /\ nr_stat_reads < MaxStatReads
    /\ nr_stat_reads' = nr_stat_reads + 1
    /\ st_pc' = "lookup"
    /\ st_idx' = 0
    /\ st_cpu' = 0
    /\ st_vec' = << >>
    /\ st_out' = << >>
    /\ UNCHANGED <<topoVars, optVars, kernVars, lb_data, task_loads,
                   nr_lb_data_errors, lbVars, planVars, selected,
                   load_samples, cleared, runVars, drvVars, pc, stats_map,
                   kernel_incs, window_incs, reported>>

\* stats_map.lookup_percpu(stat): the value of one CPU is copied.
StatsLookupCpu ==
    /\ st_pc = "lookup"
    /\ st_vec' = Append(st_vec, stats_map[st_idx][st_cpu])
    /\ IF st_cpu + 1 < host_nr_cpus
       THEN /\ st_cpu' = st_cpu + 1
            /\ st_pc' = st_pc
       ELSE /\ st_cpu' = 0
            /\ st_pc' = "zero"
    /\ UNCHANGED <<topoVars, optVars, kernVars, lb_data, task_loads,
                   nr_lb_data_errors, lbVars, planVars, selected,
                   load_samples, cleared, runVars, drvVars, pc, stats_map,
                   st_idx, st_out, kernel_incs, window_incs, reported,
                   nr_stat_reads>>

zero_value_kept(old) == old

\* An element of zero_vec takes the place of the CPU's value.
zero_value(old) == 0

\* stats_map.update_percpu(stat, &zero_vec): the value of one CPU is
\* overwritten.
StatsZeroCpu ==
    /\ st_pc = "zero"
    /\ stats_map' = [stats_map EXCEPT ![st_idx][st_cpu] = zero_value(@)]
    /\ IF st_cpu + 1 < host_nr_cpus
       THEN /\ st_cpu' = st_cpu + 1
            /\ st_pc' = st_pc
       ELSE /\ st_cpu' = 0
            /\ st_pc' = "push"
    /\ UNCHANGED <<topoVars, optVars, kernVars, lb_data, task_loads,
                   nr_lb_data_errors, lbVars, planVars, selected,
                   load_samples, cleared, runVars, drvVars, pc, st_idx,
                   st_vec, st_out, kernel_incs, window_incs, reported,
                   nr_stat_reads>>

\* cpu_stat_vec.iter().map(u64::from_ne_bytes).sum()
RECURSIVE stat_sum(_)
stat_sum(cpu_stat_vec) ==
    IF cpu_stat_vec = << >> THEN 0
    ELSE u64_add(Head(cpu_stat_vec), stat_sum(Tail(cpu_stat_vec)))

\* stats.push(sum); } and the next stat
StatsPush ==
    /\ st_pc = "push"
    /\ st_out' = Append(st_out, stat_sum(st_vec))
    /\ IF st_idx + 1 < NR_STATS
       THEN /\ st_idx' = st_idx + 1
            /\ st_vec' = << >>
            /\ st_pc' = "lookup"
       ELSE /\ UNCHANGED <<st_idx, st_vec>>
            /\ st_pc' = "return"
    /\ UNCHANGED <<topoVars, optVars, kernVars, lb_data, task_loads,
                   nr_lb_data_errors, lbVars, planVars, selected,
                   load_samples, cleared, runVars, drvVars, pc, stats_map,
                   st_cpu, kernel_incs, window_incs, reported,
                   nr_stat_reads>>

\* Ok(stats): the caller has the sums.
StatsReturn ==
    /\ st_pc = "return"
    /\ reported' = [i \in StatIdxs |-> reported[i] + st_out[i + 1]]
    /\ st_pc' = "idle"
    /\ UNCHANGED <<topoVars, optVars, kernVars, lb_data, task_loads,
                   nr_lb_data_errors, lbVars, planVars, selected,
                   load_samples, cleared, runVars, drvVars, pc, stats_map,
                   st_idx, st_cpu, st_vec, st_out, kernel_incs, window_incs,
                   nr_stat_reads>>

\* lookup_percpu or update_percpu returns an error before it has touched
\* the map: "Failed to lookup stat", "Failed to zero stat".  The sums
\* pushed so far are dropped with the error.
StatsFail ==
    /\ st_pc \in {"lookup", "zero"}
    /\ st_cpu = 0
    /\ st_pc' = "exit"
    /\ UNCHANGED <<topoVars, optVars, kernVars, lb_data, task_loads,
                   nr_lb_data_errors, lbVars, planVars, selected,
                   load_samples, cleared, runVars, drvVars, pc, stats_map,
                   st_idx, st_cpu, st_vec, st_out, kernel_incs, window_incs,
                   reported, nr_stat_reads>>

\* The stats map and its reader where read_bpf_stats is not modelled.
StatsIdle ==
    /\ stats_map = [i \in StatIdxs |-> [c \in StatCpus |-> 0]]
    /\ st_pc = "idle"
    /\ st_idx = 0
    /\ st_cpu = 0
    /\ st_vec = << >>
    /\ st_out = << >>
    /\ kernel_incs = [i \in StatIdxs |-> 0]
    /\ window_incs = [i \in StatIdxs |-> 0]
    /\ reported = [i \in StatIdxs |-> 0]
    /\ nr_stat_reads = 0

\* The tuner, the reader and the tick counters before the first tick.
TunerIdle ==
    /\ direct_greedy_under = 0
    /\ kick_greedy_under = 0
    /\ prev_cpu_stats = EmptyMap
    /\ curr_cpu_stats = EmptyMap
    /\ dom_nr_cpus = << >>
    /\ dom_util_sum = << >>
    /\ dom_utils = << >>
    /\ tune_dom = 0
    /\ tune_input = [direct_greedy_cpumask |-> {}, kick_greedy_cpumask |-> {},
                     gen |-> 0]
    /\ published = (0 :> [direct_greedy_cpumask |-> {},
                          kick_greedy_cpumask |-> {}])
    /\ nr_tune_ticks = 0
    /\ nr_sched_ticks = 0

ReaderIdle ==
    /\ rd_pc = "idle"
    /\ rd_gen = 0
    /\ rd_direct = {}
    /\ rd_kick = {}
    /\ rd_gen2 = 0

(***************************************************************************)
(* Inputs.                                                                 *)
(***************************************************************************)
HexDigits == <<"0", "1", "2", "3", "4", "5", "6", "7", "8", "9",
               "a", "b", "c", "d", "e", "f">>

\* The shortest lower-case hex string of v.
RECURSIVE to_hex(_)
to_hex(v) ==
    IF v < 16 THEN <<HexDigits[v + 1]>>
    ELSE to_hex(v \div 16) \o <<HexDigits[(v % 16) + 1]>>

\* --cpumasks arguments: every set of bits 0..MaxMaskBit as plain hex, and
\* strings with a prefix, padding, a separator, an upper-case digit, a
\* second byte, and a character that is no hex digit.
MaskPool ==
    {to_hex(v) : v \in 0..(Pow2(MaxMaskBit + 1) - 1)}
        \cup {<<"0", "x", "0", "3">>, <<"0", "_", "C">>, <<"1", "0", "0">>,
              <<"0", "x", "g">>}

\* Lists of 1..MAX_DOMS masks, and lists of MAX_DOMS + 1 equal masks (a
\* longer list is rejected before any mask is read).
CpumaskLists ==
    UNION {[1..n -> MaskPool] : n \in 1..MAX_DOMS}
        \cup {[i \in 1..(MAX_DOMS + 1) |-> m] : m \in MaskPool}

\* What reading a CPU's cache id file may give.
CacheFileOutcomes ==
    {FileOk(c) : c \in {<<"0", "\n">>, <<"3", "\n">>, <<"7", "\n">>,
                        <<"1", "2", "\n">>, <<"x", "\n">>}}
        \cup {FileNotFound, FileIoError}

\* The balancer's fields before its first tick.
BalancerIdle ==
    /\ skip_kworkers = FALSE
    /\ balance_load = TRUE
    /\ load_decay_factor = 50
    /\ task_data = EmptyMap
    /\ now_mono = 0
    /\ lb_data = EmptyMap
    /\ task_loads = EmptyMap
    /\ nr_lb_data_errors = 0
    /\ tasks_by_load = << >>
    /\ load_avg = 0
    /\ dom_loads = << >>
    /\ imbal = << >>
    /\ doms_to_push = EmptyMap
    /\ doms_to_pull = EmptyMap
    /\ push_dom = 0
    /\ to_push = 0
    /\ push_max = 0
    /\ pushed = 0
    /\ selected = << >>
    /\ load_samples = << >>
    /\ cleared = EmptyMap
    /\ TunerIdle
    /\ ReaderIdle
    /\ DrvIdle
    /\ StatsIdle

(***************************************************************************)
(* SpecTopo: Scheduler::init builds the topology from every input.         *)
(***************************************************************************)
InitTopo ==
    /\ pc = "init"
    /\ top_res = TopPending
    /\ host_nr_cpus \in 1..MaxCpus
    /\ \/ /\ opts_cpumasks \in CpumaskLists
          /\ cache_files = << >>
       \/ /\ opts_cpumasks = << >>
          /\ cache_files \in [0..(host_nr_cpus - 1) -> CacheFileOutcomes]
    /\ BalancerIdle

NextTopo == InitFromCpumasks \/ InitFromCacheLevel

SpecTopo == InitTopo /\ [][NextTopo]_vars

(***************************************************************************)
(* Spec: one balancer tick on a built topology, for every content of the   *)
(* kernel's task map.                                                      *)
(***************************************************************************)
\* The most tasks in the kernel's task map.
MaxTasks == 2

Weights == {2}

\* One CPU per domain: two domains, three domains.
BalancerHosts ==
    {[masks |-> <<<<"1">>, <<"0", "x", "2">>>>, nr |-> 2],
     [masks |-> <<<<"1">>, <<"2">>, <<"4">>>>, nr |-> 3]}

\* The task_ctx values the kernel may hold for a task: idle (runnable_at 0)
\* and allowed in its own domain.  is_kworker is read only when kworkers
\* are skipped, and is drawn only then; a task is then pinned to its own
\* domain or may run in every domain.
TaskCtxs(nr_doms, skip) ==
    {t \in [runnable_at  : {0},
            runnable_for : 0..sched_interval,
            weight       : Weights,
            dom_id       : 0..(nr_doms - 1),
            dom_mask     : 1..(Pow2(nr_doms) - 1),
            is_kworker   : IF skip THEN BOOLEAN ELSE {FALSE}] :
        /\ mask_has_dom(t.dom_mask, t.dom_id)
        /\ skip => t.dom_mask \in {Pow2(t.dom_id), Pow2(nr_doms) - 1}}

\* The pids are 1..n.  A task map and the one got from it by renaming pids
\* behave alike, and the balancer's result depends on the order in which it
\* reads the tasks only among tasks of equal domain and load: it is enough
\* to draw the maps whose tasks are in ascending (dom_id, runnable_for)
\* order, with every order among the equal ones.
task_rank(t) == t.dom_id * (sched_interval + 1) + t.runnable_for

TaskMaps(nr_doms, skip) ==
    UNION {{f \in [1..n -> TaskCtxs(nr_doms, skip)] :
               \A i \in 1..(n - 1) : task_rank(f[i]) <= task_rank(f[i + 1])} :
           n \in 0..MaxTasks}

Init ==
    /\ pc = "lb_step"
    /\ \E h \in BalancerHosts :
          /\ opts_cpumasks = h.masks
          /\ host_nr_cpus = h.nr
          /\ top_res = from_cpumasks(h.masks, h.nr)
    /\ cache_files = << >>
    /\ skip_kworkers \in BOOLEAN
    /\ balance_load = TRUE
    /\ load_decay_factor = 50
    /\ task_data \in TaskMaps(top.nr_doms, skip_kworkers)
    /\ now_mono = sched_interval
    /\ lb_data = EmptyMap
    /\ task_loads = EmptyMap
    /\ nr_lb_data_errors = 0
    /\ tasks_by_load = << >>
    /\ load_avg = 0
    /\ dom_loads = << >>
    /\ imbal = << >>
    /\ doms_to_push = EmptyMap
    /\ doms_to_pull = EmptyMap
    /\ push_dom = 0
    /\ to_push = 0
    /\ push_max = 0
    /\ pushed = 0
    /\ selected = << >>
    /\ load_samples = << >>
    /\ cleared = EmptyMap
    /\ TunerIdle
    /\ ReaderIdle
    /\ DrvIdle
    /\ StatsIdle

Next ==
    \/ LbStepNew
    \/ ReadTaskLoads
    \/ CalculateDomLoadBalance
    \/ LoadBalanceClear
    \/ PopPush
    \/ Pass
    \/ LoadBalanceDone
    \/ Report

Spec == Init /\ [][Next]_vars

(***************************************************************************)
(* SpecPlan: one balancer tick over three tasks, enough for two eligible   *)
(* tasks beside a pinned one and for two pull domains of different need.   *)
(***************************************************************************)
PlanPids == {1, 2, 3}

\* Where kworkers are told apart, a task is pinned to its own domain or
\* may run in every domain; elsewhere it may run in any set of domains
\* with its own.
PlanCtxs(nr_doms, skip) ==
    {t \in TaskCtxs(nr_doms, skip) :
        skip => t.dom_mask \in {Pow2(t.dom_id), Pow2(nr_doms) - 1}}

PlanTaskMaps(nr_doms, skip) ==
    {f \in [PlanPids -> PlanCtxs(nr_doms, skip)] :
        \A i \in PlanPids, j \in PlanPids :
            i < j => task_rank(f[i]) <= task_rank(f[j])}

InitPlan ==
    /\ pc = "lb_step"
    /\ \E h \in BalancerHosts :
          /\ opts_cpumasks = h.masks
          /\ host_nr_cpus = h.nr
          /\ top_res = from_cpumasks(h.masks, h.nr)
    /\ cache_files = << >>
    /\ skip_kworkers \in BOOLEAN
    /\ balance_load = TRUE
    /\ load_decay_factor = 50
    /\ task_data \in PlanTaskMaps(top.nr_doms, skip_kworkers)
    /\ now_mono = sched_interval
    /\ lb_data = EmptyMap
    /\ task_loads = EmptyMap
    /\ nr_lb_data_errors = 0
    /\ tasks_by_load = << >>
    /\ load_avg = 0
    /\ dom_loads = << >>
    /\ imbal = << >>
    /\ doms_to_push = EmptyMap
    /\ doms_to_pull = EmptyMap
    /\ push_dom = 0
    /\ to_push = 0
    /\ push_max = 0
    /\ pushed = 0
    /\ selected = << >>
    /\ load_samples = << >>
    /\ cleared = EmptyMap
    /\ TunerIdle
    /\ ReaderIdle
    /\ DrvIdle
    /\ StatsIdle

NextPlan ==
    \/ LbStepNew
    \/ ReadTaskLoads
    \/ CalculateDomLoadBalance
    \/ LoadBalanceClear
    \/ PopPush
    \/ Pass
    \/ LoadBalanceDone
    \/ Report

SpecPlan == InitPlan /\ [][NextPlan]_vars

(***************************************************************************)
(* SpecTerm: one balancer tick over three tasks on three domains, the      *)
(* control thread never stopping while it has a step to take.              *)
(***************************************************************************)
\* Three domains of one CPU each.
TermHosts == {[masks |-> <<<<"1">>, <<"2">>, <<"4">>>>, nr |-> 3]}

\* A task is pinned to its own domain or may run in every domain.
TermCtxs(nr_doms) ==
    {t \in TaskCtxs(nr_doms, FALSE) :
        t.dom_mask \in {Pow2(t.dom_id), Pow2(nr_doms) - 1}}

TermTaskMaps(nr_doms) ==
    {f \in [PlanPids -> TermCtxs(nr_doms)] :
        \A i \in PlanPids, j \in PlanPids :
            i < j => task_rank(f[i]) <= task_rank(f[j])}

InitTerm ==
    /\ pc = "lb_step"
    /\ \E h \in TermHosts :
          /\ opts_cpumasks = h.masks
          /\ host_nr_cpus = h.nr
          /\ top_res = from_cpumasks(h.masks, h.nr)
    /\ cache_files = << >>
    /\ skip_kworkers = FALSE
    /\ balance_load = TRUE
    /\ load_decay_factor = 50
    /\ task_data \in TermTaskMaps(top.nr_doms)
    /\ now_mono = sched_interval
    /\ lb_data = EmptyMap
    /\ task_loads = EmptyMap
    /\ nr_lb_data_errors = 0
    /\ tasks_by_load = << >>
    /\ load_avg = 0
    /\ dom_loads = << >>
    /\ imbal = << >>
    /\ doms_to_push = EmptyMap
    /\ doms_to_pull = EmptyMap
    /\ push_dom = 0
    /\ to_push = 0
    /\ push_max = 0
    /\ pushed = 0
    /\ selected = << >>
    /\ load_samples = << >>
    /\ cleared = EmptyMap
    /\ TunerIdle
    /\ ReaderIdle
    /\ DrvIdle
    /\ StatsIdle

\* The control thread has no step that changes the state: the tick has
\* ended, or a pass of the inner loop finds no victim and the loop's test
\* sends it round again with nothing changed.
NoStep ==
    \/ pc = "run"
    \/ /\ pc = "pass"
       /\ first_victim(pull_order(doms_to_pull), 1, tasks_by_load[push_dom],
                       skip_kworkers, to_push).idx = 0
       /\ ~pass_ends(pushed, pushed, push_max)

\* WF_vars(NextPlan), with ~ENABLED <<NextPlan>>_vars written out as
\* NoStep: the control thread goes on while it has a step to take.
TermFair == []<>NoStep \/ []<><<NextPlan>>_vars

SpecTerm == InitTerm /\ [][NextPlan]_vars /\ TermFair

(***************************************************************************)
(* SpecTune: tuner ticks on a built topology, for every sequence of        *)
(* /proc/stat contents.                                                    *)
(***************************************************************************)
\* Values of the options (direct_greedy_under, kick_greedy_under), from 0,
\* 50, 99.99 and 100 percent.
GreedyOpts ==
    {<<0, 100 * OptScale>>, <<50 * OptScale, 9999>>, <<100 * OptScale, 0>>}

\* Two domains of two and one CPUs from explicit masks; two domains from
\* cache ids on a host whose CPU 1 is offline.
TunerHosts ==
    {[masks |-> <<<<"3">>, <<"4">>>>, files |-> << >>, nr |-> 3],
     [masks |-> << >>,
      files |-> (0 :> FileOk(<<"0", "\n">>) @@ 1 :> FileNotFound
                   @@ 2 :> FileOk(<<"3", "\n">>)),
      nr |-> 3]}

\* Scheduler::init for a host: the topology and the Tuner::new fields.  The
\* counters of the CPUs listed in the first /proc/stat are all zero.
InitTunerOn(hosts, opts) ==
    /\ \E h \in hosts :
          /\ opts_cpumasks = h.masks
          /\ cache_files = h.files
          /\ host_nr_cpus = h.nr
          /\ top_res = IF Len(h.masks) > 0 THEN from_cpumasks(h.masks, h.nr)
                       ELSE from_cache_level(h.files, h.nr)
    /\ \E o \in opts :
          /\ direct_greedy_under = greedy_under(o[1])
          /\ kick_greedy_under = greedy_under(o[2])
    /\ prev_cpu_stats \in
           {f \in ProcStats(host_nr_cpus, EmptyMap) :
               \A c \in DOMAIN f : f[c] = StatZero}
    /\ curr_cpu_stats = EmptyMap
    /\ dom_nr_cpus = [d \in 0..(top.nr_doms - 1) |-> 0]
    /\ dom_util_sum = [d \in 0..(top.nr_doms - 1) |-> 0]
    /\ dom_utils = [d \in 0..(top.nr_doms - 1) |-> 0]
    /\ tune_dom = 0
    /\ tune_input = [direct_greedy_cpumask |-> {}, kick_greedy_cpumask |-> {},
                     gen |-> 0]
    /\ published = (0 :> [direct_greedy_cpumask |-> {},
                          kick_greedy_cpumask |-> {}])
    /\ nr_tune_ticks = 0
    /\ nr_sched_ticks = 0

\* The balancer's fields after Scheduler::init.
LbFresh ==
    /\ skip_kworkers = FALSE
    /\ balance_load = TRUE
    /\ load_decay_factor = 50
    /\ now_mono = 0
    /\ lb_data = EmptyMap
    /\ task_loads = EmptyMap
    /\ nr_lb_data_errors = 0
    /\ tasks_by_load = << >>
    /\ load_avg = 0
    /\ dom_loads = << >>
    /\ imbal = << >>
    /\ doms_to_push = EmptyMap
    /\ doms_to_pull = EmptyMap
    /\ push_dom = 0
    /\ to_push = 0
    /\ push_max = 0
    /\ pushed = 0
    /\ selected = << >>
    /\ load_samples = << >>
    /\ cleared = EmptyMap

\* No task is in the kernel's task map.
BalancerFresh ==
    /\ LbFresh
    /\ task_data = EmptyMap

InitTune ==
    /\ pc = "run"
    /\ InitTunerOn(TunerHosts, GreedyOpts)
    /\ BalancerFresh
    /\ ReaderIdle
    /\ DrvIdle
    /\ StatsIdle

NextTune ==
    \/ RunTune
    \/ TunerRead
    \/ TunerReadFail
    \/ TunerDirect
    \/ TunerKick
    \/ TunerGen

SpecTune == InitTune /\ [][NextTune]_vars

(***************************************************************************)
(* SpecRun: Scheduler::run, tuner ticks and balancer ticks in any order,   *)
(* while the kernel reads tune_input.                                      *)
(***************************************************************************)
\* One CPU, in domain 0; domain 1's mask is empty.
RunHosts == {[masks |-> <<<<"1">>, <<"0">>>>, files |-> << >>, nr |-> 1]}

\* Both thresholds at 50 percent.
RunOpts == {<<50 * OptScale, 50 * OptScale>>}

\* Two tasks of domain 0 that may run in both domains; the kernel leaves
\* them as they are.
RunTasks ==
    [pid \in 1..2 |->
        [runnable_at |-> 0, runnable_for |-> pid, weight |-> 2, dom_id |-> 0,
         dom_mask |-> 3, is_kworker |-> FALSE]]

InitRun ==
    /\ pc = "run"
    /\ InitTunerOn(RunHosts, RunOpts)
    /\ LbFresh
    /\ task_data = RunTasks
    /\ ReaderIdle
    /\ DrvIdle
    /\ StatsIdle

NextRun ==
    \/ RunTune
    \/ TunerRead
    \/ TunerReadFail
    \/ TunerDirect
    \/ TunerKick
    \/ TunerGen
    \/ ReaderGen
    \/ ReaderDirect
    \/ ReaderKick
    \/ ReaderGenAgain
    \/ RunLbStep
    \/ LbStepNew
    \/ ReadTaskLoads
    \/ CalculateDomLoadBalance
    \/ LoadBalanceClear
    \/ PopPush
    \/ Pass
    \/ LoadBalanceDone
    \/ Report

SpecRun == InitRun /\ [][NextRun]_vars

(***************************************************************************)
(* SpecDrv: Scheduler::run from its first line to main's return, with the  *)
(* Ctrl-C handler and the kernel's exit on the side.                       *)
(***************************************************************************)
InitDrv ==
    /\ pc = "run"
    /\ InitTunerOn(RunHosts, RunOpts)
    /\ LbFresh
    /\ task_data = RunTasks
    /\ ReaderIdle
    /\ StatsIdle
    /\ shutdown = FALSE
    /\ exit_type = 0
    /\ clock = 0
    /\ now_inst = 0
    /\ next_tune_at = 0 + tune_interval
    /\ next_sched_at = 0 + sched_interval
    /\ loop_pos = "top"
    /\ struct_ops = "attached"
    /\ run_result = "none"

NextDrv ==
    \/ DrvLoopTest
    \/ DrvTuneDue
    \/ TunerRead
    \/ TunerReadFail
    \/ TunerDirect
    \/ TunerKick
    \/ TunerGen
    \/ DrvTuneAdvance
    \/ DrvSchedDue
    \/ LbStepReadFail
    \/ LbStepNew
    \/ ReadTaskLoadsFail
    \/ ReadTaskLoads
    \/ CalculateDomLoadBalance
    \/ LoadBalanceClear
    \/ PopPush
    \/ Pass
    \/ LoadBalanceDone
    \/ Report
    \/ DrvSchedAdvance
    \/ DrvSleep
    \/ DrvReportExit
    \/ DrvReturn
    \/ SetShutdown
    \/ KernelExit

SpecDrv == InitDrv /\ [][NextDrv]_vars


(***************************************************************************)
(* SpecTicks: balancer ticks one after the other, the kernel rewriting its *)
(* task map between them.                                                  *)
(***************************************************************************)
\* Two domains of one CPU each.
TickHosts == {[masks |-> <<<<"1">>, <<"2">>>>, nr |-> 2]}

\* The pids that come and go.
TickPids == {1, 2}

\* What the kernel may hold for a task at the next tick, which runs at
\* time next: idle with three units of runnable time, or no runnable time
\* and runnable since one unit before the tick.  The reading is drawn
\* afresh each tick: it may be below the one of the tick before (the
\* pid was reused, or the two fields were read around an update).
TickCtxs(next) ==
    {[runnable_at |-> at_for[1], runnable_for |-> at_for[2], weight |-> 2,
      dom_id |-> 0, dom_mask |-> 3, is_kworker |-> FALSE] :
        at_for \in {<<0, 3>>, <<next - 1, 0>>}}

TickTaskMaps(next) ==
    UNION {[pids -> TickCtxs(next)] : pids \in SUBSET TickPids}

\* The kernel side between two ticks: tasks appear, run, and exit.
KernelWrites ==
    /\ pc = "run"
    /\ nr_sched_ticks < MaxSchedTicks
    /\ task_data' \in TickTaskMaps(now_mono + sched_interval)
    /\ task_data' # task_data
    /\ UNCHANGED <<topoVars, optVars, now_mono, lb_data, task_loads,
                   nr_lb_data_errors, lbVars, planVars, selected,
                   load_samples, cleared, drvVars, statVars, runVars, pc>>

InitTicks ==
    /\ pc = "run"
    /\ \E h \in TickHosts :
          /\ opts_cpumasks = h.masks
          /\ host_nr_cpus = h.nr
          /\ top_res = from_cpumasks(h.masks, h.nr)
    /\ cache_files = << >>
    /\ LbFresh
    /\ task_data = EmptyMap
    /\ TunerIdle
    /\ ReaderIdle
    /\ DrvIdle
    /\ StatsIdle

NextTicks ==
    \/ KernelWrites
    \/ RunLbStep
    \/ LbStepNew
    \/ ReadTaskLoads
    \/ ReadTaskLoadsPanic
    \/ CalculateDomLoadBalance
    \/ LoadBalanceClear
    \/ PopPush
    \/ Pass
    \/ LoadBalanceDone
    \/ Report

SpecTicks == InitTicks /\ [][NextTicks]_vars

(***************************************************************************)
(* SpecStats: read_bpf_stats called again and again on a host of two CPUs  *)
(* while the kernel side counts.                                           *)
(***************************************************************************)
InitStats ==
    /\ pc = "lb_step"
    /\ \E h \in TickHosts :
          /\ opts_cpumasks = h.masks
          /\ host_nr_cpus = h.nr
          /\ top_res = from_cpumasks(h.masks, h.nr)
    /\ cache_files = << >>
    /\ LbFresh
    /\ task_data = EmptyMap
    /\ TunerIdle
    /\ ReaderIdle
    /\ DrvIdle
    /\ StatsIdle

NextStats ==
    \/ KernelInc
    \/ StatsStart
    \/ StatsLookupCpu
    \/ StatsZeroCpu
    \/ StatsPush
    \/ StatsReturn
    \/ StatsFail

SpecStats == InitStats /\ [][NextStats]_vars


(***************************************************************************)
(* Properties of one balancing tick (specification Spec)                   *)
(***************************************************************************)
\* Bit k of a bitmask, by arithmetic.
HasBit(m, k) == (m \div Pow2(k)) % 2 = 1

\* The load this tick's selected migrations take out of domain d.
OutflowOf(d) ==
    SeqSum([i \in 1..Len(selected) |->
               IF selected[i].push_dom = d THEN selected[i].load ELSE 0])

\* C1 (outflow cap): in one tick the loads of the tasks migrated out of a
\* push domain P sum to at most 0.50 * dom_loads[P].
C1_OutflowCap ==
    \A d \in DOMAIN dom_loads :
        OutflowOf(d) * 100 <= dom_loads[d] * LOAD_IMBAL_PUSH_MAX_RATIO

\* C2 (non-increasing imbalance): every selected migration has
\* |to_push - load| + |to_pull - load| strictly below to_push + to_pull, the
\* values being those before the migration; a candidate that leaves the sum
\* equal is not selected.
C2_StrictDecrease ==
    \A i \in 1..Len(selected) :
        LET m == selected[i]
        IN  Abs(m.to_push - m.load) + Abs(m.to_pull - m.load)
                < m.to_push + m.to_pull

\* C3 (at-most-once migration): within one tick no pid is selected for
\* migration more than once, so lb_data receives at most one write per pid.
C3_AtMostOnce ==
    \A i, j \in 1..Len(selected) :
        i # j => selected[i].pid # selected[j].pid

\* A further pass is due although a task of the push domain was already
\* migrated in this tick and could still run in some pull domain.
C3_Witness ==
    /\ pc = "pass"
    /\ Len(selected) >= 1
    /\ \E k \in DOMAIN tasks_by_load[push_dom] :
          LET task == tasks_by_load[push_dom][k]
          IN  /\ task.migrated
              /\ task.pid = selected[Len(selected)].pid
              /\ \E x \in DOMAIN doms_to_pull :
                    HasBit(task.dom_mask, doms_to_pull[x])

\* C4 (eligibility): every migration the planner selects or writes, pid to
\* domain U, has bit U set in the task's dom_mask, and the task is not a
\* kworker when kworkers are skipped.
C4_Eligibility ==
    /\ \A i \in 1..Len(selected) :
          LET m == selected[i]
          IN  /\ HasBit(task_data[m.pid].dom_mask, m.pull_dom)
              /\ skip_kworkers => ~task_data[m.pid].is_kworker
    /\ \A pid \in DOMAIN lb_data :
          /\ HasBit(task_data[pid].dom_mask, lb_data[pid])
          /\ skip_kworkers => ~task_data[pid].is_kworker

\* A migration was written while the push domain's index holds another task
\* that was passed over: a kworker, or a task that cannot run in the pull
\* domain.
C4_Witness ==
    /\ Len(selected) >= 1
    /\ selected[1].written
    /\ selected[1].pid \in DOMAIN lb_data
    /\ \E k \in DOMAIN tasks_by_load[selected[1].push_dom] :
          LET task == tasks_by_load[selected[1].push_dom][k]
          IN  /\ ~task.migrated
              /\ \/ skip_kworkers /\ task.is_kworker
                 \/ ~HasBit(task.dom_mask, selected[1].pull_dom)

\* C5 (imbalance detection): after calculate_dom_load_balance every domain
\* with |imbalance| >= 0.10 * load_avg is in the push set (imbalance > 0) or
\* the pull set (imbalance < 0) under the magnitude |imbalance|, and every
\* domain below the threshold is in neither; also when two domains have the
\* same magnitude.
C5_ImbalanceDetection ==
    pc = "load_balance" =>
        \A d \in DOMAIN dom_loads :
            LET imb  == dom_loads[d] - load_avg
                high == Abs(imb) * 100 >= load_avg * LOAD_IMBAL_HIGH_RATIO
            IN  /\ (high /\ imb > 0) =>
                       /\ imb \in DOMAIN doms_to_push
                       /\ doms_to_push[imb] = d
                /\ (high /\ imb < 0) =>
                       /\ (0 - imb) \in DOMAIN doms_to_pull
                       /\ doms_to_pull[0 - imb] = d
                /\ ~high =>
                       /\ \A x \in DOMAIN doms_to_push : doms_to_push[x] # d
                       /\ \A x \in DOMAIN doms_to_pull : doms_to_pull[x] # d

\* C6 (eligible-task index): after read_task_loads a task is in the by-load
\* index of its domain exactly when its dom_mask differs from (1 << dom_id);
\* tasks of equal load are all kept.
C6_EligibleIndex ==
    pc = "calculate_dom_load_balance" =>
        \A pid \in DOMAIN task_data :
            LET ctx == task_data[pid]
            IN  (ctx.dom_mask # Pow2(ctx.dom_id)) <=>
                    \E k \in DOMAIN tasks_by_load[ctx.dom_id] :
                        tasks_by_load[ctx.dom_id][k].pid = pid

(***************************************************************************)
(* Properties of topology construction (specification SpecTopo)            *)
(***************************************************************************)
\* The digits of a mask argument, and whether all of them are hex digits.
MaskDigits(mask) == remove_underscores(strip_prefix_0x(mask))
WellFormedMask(mask) ==
    \A i \in 1..Len(MaskDigits(mask)) : MaskDigits(mask)[i] \in HexChars

\* The number a mask argument denotes, and the bits set in it.
RECURSIVE HexNumber(_)
HexNumber(digits) ==
    IF digits = << >> THEN 0
    ELSE 16 * HexNumber(SubSeq(digits, 1, Len(digits) - 1))
             + hex_val(digits[Len(digits)])
MaskBits(mask) ==
    {k \in 0..(4 * Len(MaskDigits(mask))) : HasBit(HexNumber(MaskDigits(mask)), k)}

FromMasks == pc = "init_done" /\ Len(opts_cpumasks) > 0
FromCache == pc = "init_done" /\ Len(opts_cpumasks) = 0
AllCpus == 0..(host_nr_cpus - 1)
\* A CPU is online unless its cache id file is missing.
Online(c) == Len(opts_cpumasks) > 0 \/ cache_files[c].res = "Ok"
PairwiseDisjoint(sets) ==
    \A i, j \in DOMAIN sets : i # j => sets[i] \cap sets[j] = {}

\* C7 (partition from explicit masks): whenever from_cpumasks succeeds,
\* nr_doms is the number of masks, cpu_dom[c] is defined for every
\* c < nr_cpus, cpu_dom[k] = i exactly when bit k is set in the i-th mask,
\* and the dom_cpus sets are pairwise disjoint with union {0..nr_cpus-1}.
C7_PartitionFromMasks ==
    (FromMasks /\ top_res.tag = "Ok") =>
        /\ top.nr_cpus = host_nr_cpus
        /\ top.nr_doms = Len(opts_cpumasks)
        /\ DOMAIN top.cpu_dom = AllCpus
        /\ DOMAIN top.dom_cpus = 0..(top.nr_doms - 1)
        /\ \A c \in AllCpus : top.cpu_dom[c] \in 0..(top.nr_doms - 1)
        /\ \A i \in 1..Len(opts_cpumasks) :
              /\ MaskBits(opts_cpumasks[i])
                     = {k \in AllCpus : top.cpu_dom[k] = i - 1}
              /\ top.dom_cpus[i - 1] = MaskBits(opts_cpumasks[i])
        /\ PairwiseDisjoint(top.dom_cpus)
        /\ UNION {top.dom_cpus[d] : d \in DOMAIN top.dom_cpus} = AllCpus

\* A topology of two domains with two CPUs each was built from masks.
C7_Witness ==
    /\ FromMasks
    /\ top_res.tag = "Ok"
    /\ top.nr_doms = 2
    /\ Cardinality(top.dom_cpus[0]) = 2
    /\ Cardinality(top.dom_cpus[1]) = 2

\* The defects of a list of well-formed masks.
DefectTooMany == Len(opts_cpumasks) > MAX_DOMS
DefectOutOfRange ==
    \E i \in 1..Len(opts_cpumasks) :
        \E k \in MaskBits(opts_cpumasks[i]) : k >= host_nr_cpus
DefectDouble ==
    \E i, j \in 1..Len(opts_cpumasks) :
        i # j /\ MaskBits(opts_cpumasks[i]) \cap MaskBits(opts_cpumasks[j]) # {}
DefectUnassigned ==
    \E c \in AllCpus :
        \A i \in 1..Len(opts_cpumasks) : c \notin MaskBits(opts_cpumasks[i])

\* C8 (explicit-mask validation): from_cpumasks returns an error value, never
\* a topology and never a crash, for every list with a defect: CpuOutOfRange
\* for a set bit >= nr_cpus (nr_cpus itself included), CpuDoubleAssigned for
\* a CPU in two masks, CpuUnassigned for a CPU in no mask, TooManyDoms for a
\* list longer than MAX_DOMS; it succeeds for every list with no defect.
C8_MaskValidation ==
    (FromMasks /\ \A i \in 1..Len(opts_cpumasks) : WellFormedMask(opts_cpumasks[i]))
    =>  /\ top_res.tag \in {"Ok", "Err"}
        /\ top_res.tag = "Err" <=>
              (DefectTooMany \/ DefectOutOfRange \/ DefectDouble \/ DefectUnassigned)
        /\ top_res.tag = "Err" =>
              \/ top_res.kind = "TooManyDoms" /\ DefectTooMany
              \/ top_res.kind = "CpuOutOfRange" /\ DefectOutOfRange
              \/ top_res.kind = "CpuDoubleAssigned" /\ DefectDouble
              \/ top_res.kind = "CpuUnassigned" /\ DefectUnassigned

\* C9 as the specification states it: in every constructed topology every
\* CPU maps to exactly one domain or is offline, the union of the domain
\* CPU-sets is exactly the set of online CPUs, the sets are pairwise
\* disjoint, and nr_doms <= MAX_DOMS.
C9_UnionIsOnline ==
    (pc = "init_done" /\ top_res.tag = "Ok") =>
        /\ \A c \in AllCpus :
              \/ top.cpu_dom[c] \in 0..(top.nr_doms - 1)
              \/ top.cpu_dom[c] = NoDom /\ ~Online(c)
        /\ UNION {top.dom_cpus[d] : d \in DOMAIN top.dom_cpus}
               = {c \in AllCpus : Online(c)}
        /\ PairwiseDisjoint(top.dom_cpus)
        /\ top.nr_doms <= MAX_DOMS

\* C9 (topology invariant, amended): in every constructed topology every
\* online CPU maps to one domain and is in that domain's CPU-set only; every
\* offline CPU has cpu_dom none and is in domain 0's CPU-set only; so the
\* union of the CPU-sets is {0..nr_cpus-1}, the sets are pairwise disjoint,
\* and nr_doms <= MAX_DOMS.
C9_TopologyInvariant ==
    (pc = "init_done" /\ top_res.tag = "Ok") =>
        /\ \A c \in AllCpus :
              IF Online(c)
              THEN /\ top.cpu_dom[c] \in 0..(top.nr_doms - 1)
                   /\ \A d \in DOMAIN top.dom_cpus :
                         c \in top.dom_cpus[d] <=> d = top.cpu_dom[c]
              ELSE /\ top.cpu_dom[c] = NoDom
                   /\ \A d \in DOMAIN top.dom_cpus :
                         c \in top.dom_cpus[d] <=> d = 0
        /\ UNION {top.dom_cpus[d] : d \in DOMAIN top.dom_cpus} = AllCpus
        /\ PairwiseDisjoint(top.dom_cpus)
        /\ top.nr_doms <= MAX_DOMS

\* A topology of MAX_DOMS domains was built from cache ids on a host with an
\* offline CPU.
C9_Witness ==
    /\ FromCache
    /\ top_res.tag = "Ok"
    /\ top.nr_doms = MAX_DOMS
    /\ \E c \in AllCpus : ~Online(c)

\* The cache id read for an online CPU.
CacheIdOf(c) == parse_usize(cache_files[c].val)

\* C10 (cache-level grouping): the distinct cache ids, ascending, get the
\* consecutive domain ids 0..nr_doms-1 with no holes, and every online CPU is
\* in the domain of its cache id, so two online CPUs share a domain exactly
\* when their cache ids are equal.
C10_CacheGrouping ==
    (FromCache /\ top_res.tag = "Ok") =>
        LET online == {c \in AllCpus : Online(c)}
        IN  /\ top.nr_doms = Cardinality({CacheIdOf(c) : c \in online})
            /\ {top.cpu_dom[c] : c \in online} = 0..(top.nr_doms - 1)
            /\ \A c \in online : c \in top.dom_cpus[top.cpu_dom[c]]
            /\ \A c1, c2 \in online :
                  /\ top.cpu_dom[c1] = top.cpu_dom[c2]
                         <=> CacheIdOf(c1) = CacheIdOf(c2)
                  /\ CacheIdOf(c1) < CacheIdOf(c2)
                         => top.cpu_dom[c1] < top.cpu_dom[c2]

\* Cache ids 7, 7, 12, 12 gave the domains 0, 0, 1, 1.
C10_Witness ==
    /\ FromCache
    /\ top_res.tag = "Ok"
    /\ host_nr_cpus = 4
    /\ \A c \in {0, 1} : Online(c) /\ CacheIdOf(c) = 7 /\ top.cpu_dom[c] = 0
    /\ \A c \in {2, 3} : Online(c) /\ CacheIdOf(c) = 12 /\ top.cpu_dom[c] = 1
    /\ top.nr_doms = 2

\* Every cache id file is either missing or holds a number.
CacheFilesReadable ==
    \A c \in AllCpus :
        \/ cache_files[c].res = "NotFound"
        \/ cache_files[c].res = "Ok" /\ CacheIdOf(c) # NoDom

\* C11 (offline CPUs in cache-level construction): for every assignment of
\* cache ids and offline status to the CPUs with at most MAX_DOMS distinct
\* cache ids, the case of every CPU offline included, construction succeeds,
\* each offline CPU has cpu_dom none and its bit is set in domain 0's CPU-set.
C11_OfflineCpus ==
    (/\ FromCache
     /\ CacheFilesReadable
     /\ Cardinality({CacheIdOf(c) : c \in {x \in AllCpus : Online(x)}})
            <= MAX_DOMS)
    =>  /\ top_res.tag = "Ok"
        /\ \A c \in AllCpus :
              ~Online(c) =>
                  /\ top.cpu_dom[c] = NoDom
                  /\ 0 \in DOMAIN top.dom_cpus
                  /\ c \in top.dom_cpus[0]

(***************************************************************************)
(* Properties of the tuner (specification SpecTune)                        *)
(***************************************************************************)
\* A tuner tick has completed and the control thread is back in run().
AfterTunerTick == pc = "run" /\ tune_input.gen > 0
TopCpus == 0..(top.nr_cpus - 1)
\* T > 0.99999, for T in units of 1/UtilScale
AboveAlwaysOn(T) == T > 99999 * (UtilScale \div 100000)

\* The bit rule for CPU c and threshold T.
BitRule(T, c) ==
    \/ AboveAlwaysOn(T)
    \/ top.cpu_dom[c] # NoDom /\ dom_utils[top.cpu_dom[c]] < T

\* C12 as the specification states it: after every tuner tick, for both
\* masks and every CPU c < nr_cpus, bit c is set iff T > 0.99999 or the
\* utilization of c's domain is strictly below T; so T = 1 sets every bit.
C12_BitRuleEveryCpu ==
    AfterTunerTick =>
        \A c \in TopCpus :
            /\ c \in tune_input.direct_greedy_cpumask
                   <=> BitRule(direct_greedy_under, c)
            /\ c \in tune_input.kick_greedy_cpumask
                   <=> BitRule(kick_greedy_under, c)

\* C12 (tuner bit rule, amended): after every tuner tick, for both masks and
\* every CPU c < nr_cpus that has a domain, bit c is set iff T > 0.99999 or
\* the utilization of c's domain computed in this tick is strictly below T;
\* the bit of a CPU with no domain is never written and stays 0.
C12_BitRule ==
    AfterTunerTick =>
        \A c \in TopCpus :
            IF top.cpu_dom[c] # NoDom
            THEN /\ c \in tune_input.direct_greedy_cpumask
                        <=> BitRule(direct_greedy_under, c)
                 /\ c \in tune_input.kick_greedy_cpumask
                        <=> BitRule(kick_greedy_under, c)
            ELSE /\ c \notin tune_input.direct_greedy_cpumask
                 /\ c \notin tune_input.kick_greedy_cpumask

\* After a tick with T = 1 for direct_greedy and T = 0 for kick_greedy on a
\* host whose CPU 1 has no domain: every other CPU's direct bit is set, no
\* kick bit is.
C12_Witness ==
    /\ AfterTunerTick
    /\ top.cpu_dom[1] = NoDom
    /\ direct_greedy_under = UtilScale
    /\ kick_greedy_under = 0
    /\ tune_input.direct_greedy_cpumask = TopCpus \ {1}
    /\ tune_input.kick_greedy_cpumask = {}
    /\ \E d \in DOMAIN dom_utils : dom_utils[d] > 0

\* The thresholds the options give.
Thresholds == {greedy_under(o[1]) : o \in GreedyOpts}

\* C13 (tune mask monotonicity): on the same topology and utilization, for
\* thresholds t1 < t2, every bit set in direct_greedy_cpumask under t1 is
\* set under t2.
C13_Monotone ==
    AfterTunerTick =>
        /\ tune_input.direct_greedy_cpumask
               = tune_mask({}, top, 0, dom_utils, direct_greedy_under)
        /\ \A t1, t2 \in Thresholds :
              t1 < t2 => tune_mask({}, top, 0, dom_utils, t1)
                             \subseteq tune_mask({}, top, 0, dom_utils, t2)

\* The tick's mask is not empty and a higher threshold gives a larger one.
C13_Witness ==
    /\ AfterTunerTick
    /\ tune_input.direct_greedy_cpumask # {}
    /\ \E t2 \in Thresholds :
          /\ direct_greedy_under < t2
          /\ tune_mask({}, top, 0, dom_utils, t2)
                 # tune_input.direct_greedy_cpumask
          /\ tune_mask({}, top, 0, dom_utils, t2) # TopCpus

\* The CPUs of domain d present in both snapshots, and the sum of their
\* utilizations.
CountedCpus(d) ==
    {c \in TopCpus : /\ top.cpu_dom[c] = d
                     /\ c \in DOMAIN curr_cpu_stats
                     /\ c \in DOMAIN prev_cpu_stats}
RECURSIVE UtilSum(_)
UtilSum(S) ==
    IF S = {} THEN 0
    ELSE LET c == CHOOSE x \in S : TRUE
         IN  calc_util(curr_cpu_stats[c], prev_cpu_stats[c]) + UtilSum(S \ {c})

\* C16 (domain utilization under hotplug): in a tuner tick the utilization of
\* domain d is the mean of calc_util over exactly the CPUs assigned to d and
\* present in both the previous and the current snapshot, 0.0 when there is
\* none; a CPU missing from a snapshot or without domain counts nowhere.
C16_DomainUtil ==
    pc = "tune_gen" =>
        \A d \in 0..(top.nr_doms - 1) :
            IF CountedCpus(d) = {} THEN dom_utils[d] = 0
            ELSE dom_utils[d] * Cardinality(CountedCpus(d))
                     = UtilSum(CountedCpus(d))

\* A domain's two CPUs with different utilizations were averaged while the
\* other domain's CPU appeared only in the current snapshot.
C16_Witness ==
    /\ pc = "tune_gen"
    /\ CountedCpus(0) = {0, 1}
    /\ calc_util(curr_cpu_stats[0], prev_cpu_stats[0])
           # calc_util(curr_cpu_stats[1], prev_cpu_stats[1])
    /\ 2 \in DOMAIN curr_cpu_stats
    /\ 2 \notin DOMAIN prev_cpu_stats
    /\ top.cpu_dom[2] = 1
    /\ dom_utils[1] = 0
    /\ dom_utils[0] > 0

BusyOf(st) == st.user + st.nice + st.system + st.irq + st.softirq + st.steal
TotalOf(st) == BusyOf(st) + st.idle + st.iowait

\* C17 (utilization): for two snapshots of a CPU with nondecreasing counters
\* calc_util is (busy_curr - busy_prev) / (total_curr - total_prev) clamped
\* to [0, 1] when total_curr > total_prev and exactly 1.0 when the totals are
\* equal; busy = user+nice+system+irq+softirq+steal, total = busy+idle+iowait.
C17_CalcUtil ==
    pc = "tune_direct" =>
        \A c \in DOMAIN curr_cpu_stats \cap DOMAIN prev_cpu_stats :
            LET curr  == curr_cpu_stats[c]
                prev  == prev_cpu_stats[c]
                busy  == BusyOf(curr) - BusyOf(prev)
                total == TotalOf(curr) - TotalOf(prev)
                util  == calc_util(curr, prev)
            IN  /\ StatLeq(prev, curr)
                /\ total > 0 => /\ util * total = busy * UtilScale
                                /\ util >= 0
                                /\ util <= UtilScale
                /\ total = 0 => util = UtilScale

\* One CPU's counters did not move, another's give a utilization strictly
\* between 0 and 1.
C17_Witness ==
    /\ pc = "tune_direct"
    /\ \E c1, c2 \in DOMAIN curr_cpu_stats \cap DOMAIN prev_cpu_stats :
          /\ curr_cpu_stats[c1] = prev_cpu_stats[c1]
          /\ calc_util(curr_cpu_stats[c1], prev_cpu_stats[c1]) = UtilScale
          /\ calc_util(curr_cpu_stats[c2], prev_cpu_stats[c2]) > 0
          /\ calc_util(curr_cpu_stats[c2], prev_cpu_stats[c2]) < UtilScale

\* The masks of tune_input in a state.
MasksOf(ti) ==
    [direct_greedy_cpumask |-> ti.direct_greedy_cpumask,
     kick_greedy_cpumask   |-> ti.kick_greedy_cpumask]

\* What the reader took between its two reads of gen.
ReaderMasks ==
    [direct_greedy_cpumask |-> rd_direct, kick_greedy_cpumask |-> rd_kick]

\* C14 (atomic publish): a reader that read gen, the two masks and gen
\* again, and got the same gen twice, holds the pair of masks some one
\* tick derived (or the pair of before the first tick), never a mixture
\* of two ticks' masks.
C14_AtomicPublish ==
    (rd_pc = "done" /\ rd_gen = rd_gen2)
        => \E g \in DOMAIN published : ReaderMasks = published[g]

\* C15 (publish order): gen changes only in the last step of a successful
\* tuner tick, there by exactly 1 and with both masks left as they are;
\* the masks change only in the steps of a tick before that one; so no
\* balancer step, no failed tuner tick and no reader step changes gen,
\* and gen never decreases.
C15_PublishOrder ==
    [][/\ tune_input'.gen >= tune_input.gen
       /\ (tune_input'.gen # tune_input.gen) =>
              /\ pc = "tune_gen"
              /\ pc' = "run"
              /\ tune_input'.gen = tune_input.gen + 1
              /\ MasksOf(tune_input') = MasksOf(tune_input)
       /\ (pc = "tune_gen" /\ pc' # pc) =>
              tune_input'.gen = tune_input.gen + 1
       /\ (MasksOf(tune_input') # MasksOf(tune_input)) =>
              pc \in {"tune_direct", "tune_kick"}
       /\ (pc \notin {"tune_gen"}) => tune_input'.gen = tune_input.gen]_vars

\* Two successful tuner ticks with a balancer tick and a changed mask
\* behind them.
C15_Witness ==
    /\ pc = "run"
    /\ tune_input.gen = 2
    /\ nr_sched_ticks >= 1
    /\ published[1] # published[2]

\* What the latest read_task_loads computed, pid by pid.
LastSamples == load_samples[Len(load_samples)]

Between(x, a, b) == (a <= x /\ x <= b) \/ (b <= x /\ x <= a)

\* C18 (load clamp): whatever runnable_at, runnable_for and weight the
\* kernel holds for a task, a reading of runnable_for below the stored one
\* included, read_task_loads computes for it a raw load in [0, weight] and
\* stores a load between the prior load and the raw load, or the raw load
\* when the pid has no prior entry.
C18_LoadClamp ==
    /\ pc # "panic"
    /\ pc = "calculate_dom_load_balance" =>
          \A pid \in DOMAIN task_data :
             /\ pid \in DOMAIN LastSamples
             /\ pid \in DOMAIN task_loads
             /\ LET s == LastSamples[pid]
                IN  /\ 0 <= s.raw
                    /\ s.raw <= s.weight * LoadScale
                    /\ task_loads[pid].load = s.load
                    /\ IF s.has_prev
                       THEN Between(s.load, s.prev_load, s.raw)
                       ELSE s.load = s.raw

\* The pids the tick before the latest one found in the kernel's map.
SeenBefore ==
    IF Len(load_samples) >= 2 THEN DOMAIN load_samples[Len(load_samples) - 1]
    ELSE {}

\* The raw load of a first observation, from the kernel's fields.
FirstRaw(task_ctx) ==
    LET running == IF task_ctx.runnable_at > 0 /\ task_ctx.runnable_at < now_mono
                   THEN now_mono - task_ctx.runnable_at ELSE 0
        d       == task_ctx.runnable_for + running
        capped  == IF d < sched_interval THEN d ELSE sched_interval
    IN  (task_ctx.weight * LoadScale * capped) \div sched_interval

\* C19 (per-pid load table): after a successful read_task_loads the
\* table task_loads has exactly the pids of the kernel's task map; a pid
\* that was not in the map at the tick before is taken as first observed:
\* its delta is its runnable_for reading and its stored load is the raw
\* load, whatever was stored for it in earlier ticks.
C19_LoadTable ==
    pc = "calculate_dom_load_balance" =>
        /\ DOMAIN task_loads = DOMAIN task_data
        /\ \A pid \in DOMAIN task_data :
              /\ task_loads[pid].runnable_for = task_data[pid].runnable_for
              /\ pid \notin SeenBefore =>
                    /\ ~LastSamples[pid].has_prev
                    /\ LastSamples[pid].delta0 = task_data[pid].runnable_for
                    /\ LastSamples[pid].raw = FirstRaw(task_data[pid])
                    /\ task_loads[pid].load = LastSamples[pid].raw

\* A pid seen in the first tick with three units of runnable time, gone in
\* the second and back in the third with the same reading: its load is
\* the full raw load again.
C19_Witness ==
    /\ pc = "calculate_dom_load_balance"
    /\ Len(load_samples) = 3
    /\ \E pid \in DOMAIN task_data :
          /\ pid \in DOMAIN load_samples[1]
          /\ pid \notin DOMAIN load_samples[2]
          /\ load_samples[1][pid].raw = 2 * LoadScale
          /\ task_data[pid].runnable_for = 3
          /\ task_loads[pid].load = 2 * LoadScale

\* The migrations of this tick whose write to lb_data succeeded.
WrittenSelected == {i \in 1..Len(selected) : selected[i].written}

\* C20 (migration table content): from the clear at the start of
\* load_balance to the next tick, lb_data holds exactly pid -> pull_dom of
\* the migrations selected in this tick whose write succeeded, so none of
\* the entries of an earlier tick; and no migration of the tick is
\* selected or written before the clear.
C20_MigrationTable ==
    /\ pc \in {"pop_push", "pass", "report", "run"} =>
          /\ DOMAIN lb_data = {selected[i].pid : i \in WrittenSelected}
          /\ \A i \in WrittenSelected :
                lb_data[selected[i].pid] = selected[i].pull_dom
    /\ pc \in {"read_task_loads", "calculate_dom_load_balance",
               "load_balance"} => selected = << >>

\* A tick ends with a migration written and without an entry that was in
\* lb_data when the tick's load_balance began.
C20_Witness ==
    /\ pc = "report"
    /\ WrittenSelected # {}
    /\ \E pid \in DOMAIN cleared : pid \notin DOMAIN lb_data

\* The positions of the control thread inside load_balance and after it.
InLoadBalance == {"pop_push", "pass", "report"}

\* C21 (tick-local write errors): a step that selects a migration adds
\* exactly 1 to nr_lb_data_errors when the write to lb_data failed and
\* nothing when it succeeded, and no other step changes the counter; the
\* tick goes on after the failure (next pass, next push domain, report)
\* and ends back in the driver loop, never in an exit.
C21_WriteErrors ==
    [][/\ (pc = "pass" /\ Len(selected') = Len(selected) + 1) =>
              /\ nr_lb_data_errors' = nr_lb_data_errors
                     + (IF selected'[Len(selected')].written THEN 0 ELSE 1)
              /\ selected'[Len(selected')].written
                     = (selected'[Len(selected')].pid \in DOMAIN lb_data')
       /\ (pc # "pass" \/ Len(selected') = Len(selected)) =>
              nr_lb_data_errors' = nr_lb_data_errors
       /\ (pc \in InLoadBalance) =>
              pc' \in InLoadBalance \cup {"run"}]_vars

\* A later tick is under way after a tick in which a write failed.
C21_Witness ==
    /\ pc = "read_task_loads"
    /\ nr_sched_ticks >= 2
    /\ nr_lb_data_errors >= 1

\* The pull set as domain -> remaining to_pull.
PullNeed(pulls) ==
    [d \in {pulls[k] : k \in DOMAIN pulls} |->
        CHOOSE k \in DOMAIN pulls : pulls[k] = d]

\* pick_victim finds a task of the current push domain for pull domain d.
VictimFor(d, need) ==
    pick_victim(tasks_by_load[push_dom], skip_kworkers, to_push, d, need).found

\* C26 (planner order): the push domain taken up next is the one of the
\* greatest imbalance left in the push set; a pass selects at most one
\* migration, into the pull domain of the greatest remaining to_pull for
\* which pick_victim finds a task; the task's load is taken off to_push
\* and off that pull domain's to_pull and added to pushed; the to_pull
\* of the other pull domains is left as it is; a pass in which pick_victim
\* finds no task for any pull domain changes none of these.
C26_PlannerOrder ==
    [][/\ (pc = "pop_push" /\ pc' = "pass") =>
              /\ to_push' \in DOMAIN doms_to_push
              /\ push_dom' = doms_to_push[to_push']
              /\ \A k \in DOMAIN doms_to_push : k <= to_push'
              /\ pushed' = 0
       /\ (pc = "pass") =>
              LET need  == PullNeed(doms_to_pull)
                  need2 == PullNeed(doms_to_pull')
                  e     == selected'[Len(selected')]
              IN  /\ Len(selected') \in {Len(selected), Len(selected) + 1}
                  /\ (Len(selected') = Len(selected) + 1) =>
                        /\ e.push_dom = push_dom
                        /\ e.pull_dom \in DOMAIN need
                        /\ e.to_pull = need[e.pull_dom]
                        /\ e.to_push = to_push
                        /\ VictimFor(e.pull_dom, e.to_pull)
                        /\ \A d \in DOMAIN need :
                              need[d] > e.to_pull => ~VictimFor(d, need[d])
                        /\ to_push' = to_push - e.load
                        /\ pushed' = pushed + e.load
                        /\ (e.pull_dom \in DOMAIN need2) =>
                              need2[e.pull_dom] = e.to_pull - e.load
                        /\ \A d \in (DOMAIN need2) \ {e.pull_dom} :
                              d \in DOMAIN need /\ need2[d] = need[d]
                  /\ (Len(selected') = Len(selected)) =>
                        /\ \A d \in DOMAIN need : ~VictimFor(d, need[d])
                        /\ to_push' = to_push
                        /\ pushed' = pushed
                        /\ doms_to_pull' = doms_to_pull]_vars

\* A migration went to the second pull domain in rank, the first one
\* having no task to take, and both are still in the pull set.
C26_Witness ==
    /\ pc \in {"pass", "pop_push"}
    /\ Len(selected) = 1
    /\ Cardinality(DOMAIN doms_to_pull) >= 2
    /\ \E k \in DOMAIN doms_to_pull :
          /\ k > selected[1].to_pull
          /\ doms_to_pull[k] # selected[1].pull_dom

\* C27 (pull set preservation): no step of load_balance takes a domain
\* out of the pull set; after a pass every pull domain is there with its
\* remaining to_pull, also when the to_pull of the domain that received a
\* task has become equal to another pull domain's.
C27_PullSetPreserved ==
    [][(pc \in {"pop_push", "pass"}) =>
          DOMAIN PullNeed(doms_to_pull') = DOMAIN PullNeed(doms_to_pull)]_vars

\* The loads of the tasks of the current push domain that may go to pull
\* domain d: not migrated in this tick, allowed in d, and no kworker when
\* kworkers are skipped.
EligibleLoads(d) ==
    {k \in DOMAIN tasks_by_load[push_dom] :
        LET task == tasks_by_load[push_dom][k]
        IN  /\ ~task.migrated
            /\ mask_has_dom(task.dom_mask, d)
            /\ ~(skip_kworkers /\ task.is_kworker)}

\* What pick_victim returns for the current push domain and pull domain d.
Picked(d, need) ==
    pick_victim(tasks_by_load[push_dom], skip_kworkers, to_push, d, need)

Dist(a, b) == IF a >= b THEN a - b ELSE b - a

\* C28 (victim choice as the code's comment has it): the task pick_victim
\* returns for a pair is an eligible task whose load is the closest to
\* to_xfer = min(to_push, to_pull) * 0.50 among the eligible tasks.
C28_ClosestToXfer ==
    pc = "pass" =>
        \A d \in DOMAIN PullNeed(doms_to_pull) :
            LET need == PullNeed(doms_to_pull)[d]
                x    == xfer_target(to_push, need)
                v    == Picked(d, need)
            IN  v.found =>
                    /\ v.load \in EligibleLoads(d)
                    /\ \A k \in EligibleLoads(d) :
                          Dist(v.load, x) <= Dist(k, x)

\* The imbalance the pair is left with after a transfer of load.
PostImbal(need, load) == Dist(to_push, load) + Dist(need, load)

\* The two candidates of the rule: the greatest eligible load at or below
\* x and the least eligible load at or above x.
LowerSide(d, x) == {k \in EligibleLoads(d) : k <= x}

UpperSide(d, x) == {k \in EligibleLoads(d) : k >= x}

\* The candidate the rule prefers: the one of the smaller post-transfer
\* imbalance, the lower one on a tie.  Asked only where a side has one.
Preferred(d, need, x) ==
    LET lo == Max(LowerSide(d, x))
        hi == Min(UpperSide(d, x))
    IN  IF UpperSide(d, x) = {} THEN lo
        ELSE IF LowerSide(d, x) = {} THEN hi
        ELSE IF PostImbal(need, lo) <= PostImbal(need, hi) THEN lo
        ELSE hi

\* C29 as stated (victim selection rule): pick_victim returns the
\* preferred one of the two candidates whenever a side has an eligible
\* task, and none only when neither side has one.
C29_TwoCandidates ==
    pc = "pass" =>
        \A d \in DOMAIN PullNeed(doms_to_pull) :
            LET need == PullNeed(doms_to_pull)[d]
                x    == xfer_target(to_push, need)
                v    == Picked(d, need)
            IN  /\ v.found = (EligibleLoads(d) # {})
                /\ v.found => v.load = Preferred(d, need, x)

\* C29 (victim selection rule, amended): pick_victim takes the preferred
\* one of the two candidates and returns it unless its post-transfer
\* imbalance is above to_push + to_pull; it returns none when neither
\* side has an eligible task or the preferred one is refused so.
C29_VictimRule ==
    pc = "pass" =>
        \A d \in DOMAIN PullNeed(doms_to_pull) :
            LET need == PullNeed(doms_to_pull)[d]
                x    == xfer_target(to_push, need)
                v    == Picked(d, need)
            IN  /\ v.found =
                      /\ EligibleLoads(d) # {}
                      /\ PostImbal(need, Preferred(d, need, x))
                             <= to_push + need
                /\ v.found =>
                      /\ v.load = Preferred(d, need, x)
                      /\ v.task = tasks_by_load[push_dom][v.load]

\* Both sides have a candidate, of different post-transfer imbalance on a
\* pair, and the upper one is returned.
C29_Witness ==
    /\ pc = "pass"
    /\ \E d \in DOMAIN PullNeed(doms_to_pull) :
          LET need == PullNeed(doms_to_pull)[d]
              x    == xfer_target(to_push, need)
          IN  /\ LowerSide(d, x) # {}
              /\ UpperSide(d, x) # {}
              /\ PostImbal(need, Max(LowerSide(d, x)))
                     > PostImbal(need, Min(UpperSide(d, x)))
              /\ Picked(d, need).found
              /\ Picked(d, need).load = Min(UpperSide(d, x))


\* C22 (fatal read errors): once a read has failed in a tick the control
\* thread is in "exit"; from there it starts no tick (the tick counters stay)
\* and only returns, with an error and with the struct_ops link dropped.
\* task_loads is replaced only by the step that ends read_task_loads with
\* success, so a failing tick leaves it as it was when the tick began.
C22_FatalReadErrors ==
    [][/\ (pc = "exit") =>
              /\ pc' \in {"exit", "returned"}
              /\ nr_tune_ticks' = nr_tune_ticks
              /\ nr_sched_ticks' = nr_sched_ticks
              /\ task_loads' = task_loads
       /\ (pc = "exit" /\ pc' = "returned") =>
              /\ run_result' = "Err"
              /\ struct_ops' = "detached"
       /\ (pc' = "exit" /\ pc # "exit") =>
              /\ pc \in {"tune_read", "lb_step", "read_task_loads"}
              /\ task_loads' = task_loads
       /\ (task_loads' # task_loads) =>
              /\ pc = "read_task_loads"
              /\ pc' = "calculate_dom_load_balance"]_vars

\* The second balancer tick or a later one has failed in a read, with loads
\* persisted by the ticks before it; run has returned the error and the
\* link is dropped.  Neither Ctrl-C nor a kernel exit had a part in it.
C22_Witness ==
    /\ pc = "returned"
    /\ run_result = "Err"
    /\ struct_ops = "detached"
    /\ ~shutdown
    /\ exit_type = 0
    /\ nr_sched_ticks >= 2
    /\ DOMAIN task_loads # {}

\* C23 (shutdown): no tuner tick and no balancer tick starts once the
\* shutdown flag is set.
C23_NoTickAfterShutdown ==
    [][(pc = "run" /\ pc' \in {"tune_read", "lb_step"}) => ~shutdown]_vars

\* C24 (kernel exit): run returns Ok only after a clean shutdown, the exit
\* type being 0; a loop ended by a nonzero exit type ends in an error.
C24_KernelExitIsError ==
    (pc = "returned" /\ run_result = "Ok") => (shutdown /\ exit_type = 0)

\* The earlier of the two deadlines.
EarlierDeadline ==
    IF next_sched_at < next_tune_at THEN next_sched_at ELSE next_tune_at

\* C25 (deadline advance without catch-up): a tick starts only when its
\* deadline d is not after the iteration's now; after the tick the deadline
\* is d + interval when that is not before now and now + interval
\* otherwise, so it is never before now; an iteration comes to each
\* cadence's test once, from the loop test and from the tuner's part in
\* turn; the sleep ends at the earlier deadline, or at once when that is
\* past.
C25_DeadlineAdvance ==
    [][/\ (pc = "run" /\ pc' = "tune_read") =>
              /\ loop_pos = "tune"
              /\ next_tune_at <= now_inst
       /\ (pc = "run" /\ pc' = "lb_step") =>
              /\ loop_pos = "sched"
              /\ next_sched_at <= now_inst
       /\ (loop_pos = "tune_done" /\ loop_pos' # loop_pos) =>
              /\ next_tune_at' =
                     (IF next_tune_at + tune_interval >= now_inst
                      THEN next_tune_at + tune_interval
                      ELSE now_inst + tune_interval)
              /\ next_tune_at' >= now_inst
       /\ (loop_pos = "sched_done" /\ loop_pos' # loop_pos) =>
              /\ next_sched_at' =
                     (IF next_sched_at + sched_interval >= now_inst
                      THEN next_sched_at + sched_interval
                      ELSE now_inst + sched_interval)
              /\ next_sched_at' >= now_inst
       /\ (loop_pos # "tune_done") => next_tune_at' = next_tune_at
       /\ (loop_pos # "sched_done") => next_sched_at' = next_sched_at
       /\ (loop_pos' = "tune" /\ loop_pos # "tune") => loop_pos = "top"
       /\ (loop_pos' = "sched" /\ loop_pos # "sched") =>
              loop_pos \in {"tune", "tune_done"}
       /\ (loop_pos' = "top" /\ loop_pos # "top") =>
              /\ loop_pos = "sleep"
              /\ clock' = (IF EarlierDeadline > clock THEN EarlierDeadline
                           ELSE clock)]_vars

\* The loop is behind: the second tuner tick began at 4 with its deadline at
\* 2, and the deadline is now 5 and not 3.
C25_Witness ==
    /\ loop_pos = "sched"
    /\ nr_tune_ticks = 2
    /\ now_inst = 4
    /\ next_tune_at = now_inst + tune_interval

\* What the map holds of one counter, over the CPUs.
MapSum(idx) == SeqSum([i \in 1..host_nr_cpus |-> stats_map[idx][i - 1]])

\* C30 (stats read-and-reset): the sums that read_bpf_stats has returned
\* for a counter never exceed the increments the kernel side has made to
\* it; between calls, every increment is either in a returned sum, or still
\* in the map, or has landed on a CPU between the copy of the CPU's value
\* and its overwriting: no increment is in two sums and none is lost
\* outside that window.
C30_ReadAndReset ==
    \A idx \in StatIdxs :
        /\ reported[idx] <= kernel_incs[idx]
        /\ (st_pc = "idle") =>
               kernel_incs[idx]
                   = reported[idx] + MapSum(idx) + window_incs[idx]

\* After two calls: one increment of a counter was returned in a sum,
\* another one was lost in the window.
C30_Witness ==
    /\ st_pc = "idle"
    /\ nr_stat_reads = 2
    /\ \E idx \in StatIdxs :
          /\ reported[idx] >= 1
          /\ window_incs[idx] >= 1
          /\ kernel_incs[idx] = reported[idx] + window_incs[idx]


\* The pids the tick has read that may run outside their own domain.
EligiblePids == {pid \in DOMAIN task_data : ~not_eligible(task_data[pid])}

\* The pids selected for migration so far in this tick.
SelectedPids == {selected[i].pid : i \in 1..Len(selected)}

\* C31 (planner termination): a pass of the inner loop either selects one
\* task that was not selected before in the tick or ends the inner loop; a
\* step of the outer loop takes one domain out of the push set and no other
\* step of load_balance puts one in; the migrations of a tick are no more
\* than the eligible tasks; and load_balance, once begun, comes to its end.
C31_Termination ==
    /\ [][/\ (pc = "pass") =>
               \/ /\ Len(selected') = Len(selected) + 1
                  /\ selected'[Len(selected')].pid \notin SelectedPids
               \/ /\ selected' = selected
                  /\ pc' = "pop_push"
          /\ (pc = "pop_push" /\ pc' = "pass") =>
               Cardinality(DOMAIN doms_to_push')
                   = Cardinality(DOMAIN doms_to_push) - 1
          /\ (pc \in InLoadBalance \/ pc = "load_balance") =>
               DOMAIN doms_to_push' \subseteq DOMAIN doms_to_push
          /\ Len(selected') <= Cardinality(EligiblePids)]_vars
    /\ (pc = "load_balance") ~> (pc = "report" /\ doms_to_push = EmptyMap)

\* load_balance has ended with the push set empty, after an inner loop that
\* went on after its first migration and made a second one.
C31_Witness ==
    /\ pc = "report"
    /\ doms_to_push = EmptyMap
    /\ Len(selected) >= 2
    /\ selected[1].push_dom = selected[2].push_dom
    /\ selected[1].pid # selected[2].pid

\* The domains that are or were push sources in this tick: those still in
\* the push set, the one being pushed from, and those of the migrations.
PushSources ==
    {doms_to_push[k] : k \in DOMAIN doms_to_push}
        \cup (IF pc = "pass" THEN {push_dom} ELSE {})
        \cup {selected[i].push_dom : i \in 1..Len(selected)}

\* The domains that are or were pull targets in this tick.
PullTargets ==
    {doms_to_pull[k] : k \in DOMAIN doms_to_pull}
        \cup {selected[i].pull_dom : i \in 1..Len(selected)}

\* C32 (no self-migration): every migration selected in the tick takes a
\* task out of the domain the kernel holds for it and into another one;
\* no domain is a push source and a pull target in the same tick, also with
\* a remaining to_push or to_pull below zero.
C32_NoSelfMigration ==
    /\ \A i \in 1..Len(selected) :
          /\ selected[i].pull_dom # selected[i].push_dom
          /\ task_data[selected[i].pid].dom_id = selected[i].push_dom
    /\ PushSources \cap PullTargets = {}

\* A migration has overshot: the pull domain's remaining to_pull is below
\* zero, it is still in the pull set, and a further pass is due for the
\* push domain.
C32_Witness ==
    /\ pc = "pass"
    /\ Len(selected) >= 1
    /\ selected[Len(selected)].push_dom = push_dom
    /\ \E k \in DOMAIN doms_to_pull :
          /\ k < 0
          /\ doms_to_pull[k] = selected[Len(selected)].pull_dom

=============================================================================
